---- MODULE Spec2Model ----
(***************************************************************************)
(* AIArchitect backend: the decision pipeline (pipelines/decision.py and   *)
(* the instrumented copy in main.py), the memory store searches it uses    *)
(* (clients/vector_store.py), and the ledger side of record_trade          *)
(* (pipelines/learning.py).                                                *)
(*                                                                         *)
(* Text is modelled as a sequence of words (a word is an indivisible run   *)
(* of characters); the words are chosen so that no phrase the code looks   *)
(* for can straddle a word boundary in any other way than word by word.    *)
(* Numbers are exact fractions num/den, plus the IEEE specials.            *)
(***************************************************************************)
EXTENDS Integers, Sequences, FiniteSets, TLC

\* ------------------------------------------------------------------ bounds

\* how many chunks an LLM text answer is assembled from
MaxChunks == 3
\* how many points a memory collection holds at most
MaxTradePoints == 1
MaxRulePoints == 1
\* how many trades the ledger holds at most
MaxTrades == 3
\* how many times execute_learning is called at most
MaxLearningRuns == 1
\* how many times execute_learning is called at most on the trades of a
\* journal
MaxJournalRuns == 3

\* ------------------------------------------------------------------- words

\* <<lower, title, upper>> spellings of the words that have letter case
CaseTable ==
    { <<"take", "Take", "TAKE">>, <<"trade", "Trade", "TRADE">>,
      <<"no", "No", "NO">>, <<"confidence", "Confidence", "CONFIDENCE">>,
      <<"hold", "Hold", "HOLD">>, <<"nan", "NaN", "NAN">>,
      <<"inf", "Inf", "INF">> }

\* str.lower() on one word
LowerWord(w) ==
    IF \E c \in CaseTable : w \in {c[1], c[2], c[3]}
    THEN (CHOOSE c \in CaseTable : w \in {c[1], c[2], c[3]})[1]
    ELSE w

\* str.upper() on one word
UpperWord(w) ==
    IF \E c \in CaseTable : w \in {c[1], c[2], c[3]}
    THEN (CHOOSE c \in CaseTable : w \in {c[1], c[2], c[3]})[3]
    ELSE w

\* str.lower() / str.upper() on a text
Lower(t) == [i \in 1..Len(t) |-> LowerWord(t[i])]
Upper(t) == [i \in 1..Len(t) |-> UpperWord(t[i])]

\* Python's  needle in haystack  on texts
Contains(hay, needle) ==
    \E i \in 1..(Len(hay) - Len(needle) + 1) :
        SubSeq(hay, i, i + Len(needle) - 1) = needle

Digits == {"0", "1", "5", "8"}
DigitVal(d) == CASE d = "0" -> 0 [] d = "1" -> 1 [] d = "5" -> 5 [] d = "8" -> 8

RECURSIVE IntOf(_)
\* int() of a run of digits
IntOf(ds) ==
    IF Len(ds) = 0 THEN 0
    ELSE 10 * IntOf(SubSeq(ds, 1, Len(ds) - 1)) + DigitVal(ds[Len(ds)])

RECURSIVE Pow10(_)
Pow10(k) == IF k = 0 THEN 1 ELSE 10 * Pow10(k - 1)

\* the end of the maximal run of words of set S that starts at position i
\* (i - 1 when t[i] is not in S)
RECURSIVE RunEnd(_, _, _)
RunEnd(t, i, S) ==
    IF i <= Len(t) /\ t[i] \in S THEN RunEnd(t, i + 1, S) ELSE i - 1

\* ----------------------------------------------------------------- numbers

Fin(n, d) == [k |-> "fin", num |-> n, den |-> d]
NaN == [k |-> "nan", num |-> 0, den |-> 1]
PosInf == [k |-> "inf", num |-> 0, den |-> 1]
NegInf == [k |-> "ninf", num |-> 0, den |-> 1]

\* Python's  a < b  on floats (False whenever a NaN is involved)
Lt(a, b) ==
    CASE a.k = "nan" \/ b.k = "nan" -> FALSE
      [] a.k = "ninf" -> b.k # "ninf"
      [] a.k = "inf" -> FALSE
      [] b.k = "ninf" -> FALSE
      [] b.k = "inf" -> TRUE
      [] OTHER -> a.num * b.den < b.num * a.den

\* Python's min(a, b) and max(a, b): the first argument wins unless the
\* second is strictly smaller (larger)
PyMin(a, b) == IF Lt(b, a) THEN b ELSE a
PyMax(a, b) == IF Lt(a, b) THEN b ELSE a

NumEq(a, b) ==
    \/ a = b
    \/ a.k = b.k /\ (a.k = "fin" => a.num * b.den = b.num * a.den)
InUnit(a) == a.k = "fin" /\ 0 <= a.num /\ a.num <= a.den

\* ------------------------------------------------------- JSON values (LLM)

\* one JSON value as Python sees it after json.loads: t is its type
Missing == [t |-> "missing", s |-> <<>>, n |-> Fin(0, 1), b |-> FALSE]
Null == [t |-> "null", s |-> <<>>, n |-> Fin(0, 1), b |-> FALSE]
Str(x) == [t |-> "str", s |-> x, n |-> Fin(0, 1), b |-> FALSE]
Num(x) == [t |-> "num", s |-> <<>>, n |-> x, b |-> FALSE]
Bool(x) == [t |-> "bool", s |-> <<>>, n |-> Fin(0, 1), b |-> x]
List == [t |-> "list", s |-> <<>>, n |-> Fin(0, 1), b |-> FALSE]

TAKE_TRADE == <<"TAKE", "_", "TRADE">>
NO_TRADE == <<"NO", "_", "TRADE">>
NO_REASONING == <<"No", " ", "reasoning", " ", "provided">>

\* a returned decision record, or the exception that left the function
Returned(d, c, r) ==
    [ok |-> TRUE, exc |-> "", decision |-> d, confidence |-> c, reason |-> r]
Raised(e) ==
    [ok |-> FALSE, exc |-> e, decision |-> <<>>, confidence |-> NaN,
     reason |-> Missing]

\* str.strip() on a text: leading and trailing blanks removed
RECURSIVE Strip(_)
Strip(t) ==
    IF Len(t) > 0 /\ t[1] = " " THEN Strip(Tail(t))
    ELSE IF Len(t) > 0 /\ t[Len(t)] = " " THEN Strip(SubSeq(t, 1, Len(t) - 1))
    ELSE t

\* the value of  digits [ "." digits ]  spelled by the words of t
Decimal(t) ==
    LET e == RunEnd(t, 1, Digits)
        frac == SubSeq(t, e + 2, Len(t))
    IN  IF e = Len(t) THEN Fin(IntOf(t), 1)
        ELSE Fin(IntOf(SubSeq(t, 1, e)) * Pow10(Len(frac)) + IntOf(frac),
                 Pow10(Len(frac)))

\* whether t spells  digits [ "." [digits] ]  or  "." digits
IsDecimal(t) ==
    LET e == RunEnd(t, 1, Digits)
    IN  /\ Len(t) > 0
        /\ \/ e = Len(t)
           \/ /\ t[e + 1] = "."
              /\ RunEnd(t, e + 2, Digits) = Len(t)
              /\ Len(t) > 1

\* float(s): [ok, v]; ok = FALSE is ValueError
PyFloat(s) ==
    LET u == Lower(Strip(s))
        neg == Len(u) > 0 /\ u[1] = "-"
        body == IF neg THEN Tail(u) ELSE u
    IN  CASE body = <<"nan">> -> [ok |-> TRUE, v |-> NaN]
          [] body = <<"inf">> ->
                [ok |-> TRUE, v |-> IF neg THEN NegInf ELSE PosInf]
          [] IsDecimal(body) ->
                [ok |-> TRUE,
                 v |-> LET d == Decimal(body)
                       IN  IF neg THEN Fin(0 - d.num, d.den) ELSE d]
          [] OTHER -> [ok |-> FALSE, v |-> NaN]

\* str(x) for the kinds of value a reason can be
PyStr(v) ==
    CASE v.t = "str" -> v.s
      [] v.t = "null" -> <<"None">>
      [] v.t = "bool" -> IF v.b THEN <<"True">> ELSE <<"False">>
      [] v.t = "list" -> <<"[", "]">>

\* what min(1.0, x) and max(0.0, y) accept: a number or a bool (True is 1)
AsNumber(v) == IF v.t = "bool" THEN Fin(IF v.b THEN 1 ELSE 0, 1) ELSE v.n

\* ------------------------------------------------ DecisionPipeline helpers

DEFAULT_CONFIDENCE == Fin(5, 10)
ONE == Fin(1, 1)
ZERO == Fin(0, 1)

\* dict.get(key, default) on the modelled response
Get(v, default) == IF v.t = "missing" THEN default ELSE v

\* _normalize_response without line 194 (the clamp of the confidence)
normalize_response_unclamped(response) ==
    IF response.kind # "dict" THEN Raised("AttributeError")
    ELSE
    LET dv == Get(response.decision, Str(NO_TRADE))
        up == Upper(dv.s)
        decision == IF up \in {TAKE_TRADE, NO_TRADE} THEN up ELSE NO_TRADE
        c0 == Get(response.confidence, Num(DEFAULT_CONFIDENCE))
        c1 == IF c0.t = "str"
              THEN IF PyFloat(c0.s).ok THEN Num(PyFloat(c0.s).v)
                   ELSE Num(DEFAULT_CONFIDENCE)
              ELSE c0
        reason == Get(response.reason,
                      Get(response.reasoning, Str(NO_REASONING)))
    IN  CASE dv.t # "str" -> Raised("AttributeError")
          [] c1.t \notin {"num", "bool"} -> Raised("TypeError")
          [] OTHER -> Returned(decision, AsNumber(c1), Str(PyStr(reason)))

\* DecisionPipeline._normalize_response
_normalize_response(response) ==
    IF response.kind # "dict" THEN Raised("AttributeError")
    ELSE
    LET dv == Get(response.decision, Str(NO_TRADE))
        up == Upper(dv.s)
        decision == IF up \in {TAKE_TRADE, NO_TRADE} THEN up ELSE NO_TRADE
        c0 == Get(response.confidence, Num(DEFAULT_CONFIDENCE))
        c1 == IF c0.t = "str"
              THEN IF PyFloat(c0.s).ok THEN Num(PyFloat(c0.s).v)
                   ELSE Num(DEFAULT_CONFIDENCE)
              ELSE c0
        reason == Get(response.reason,
                      Get(response.reasoning, Str(NO_REASONING)))
    IN  CASE dv.t # "str" -> Raised("AttributeError")
          [] c1.t \notin {"num", "bool"} -> Raised("TypeError")
          [] OTHER ->
                Returned(decision, PyMax(ZERO, PyMin(ONE, AsNumber(c1))),
                         Str(PyStr(reason)))

\* number of characters of a text
RECURSIVE CharLen(_)
CharLen(t) == IF Len(t) = 0 THEN 0 ELSE Len(Head(t)) + CharLen(Tail(t))

\* text[:n]: the longest prefix of whole words within the first n characters
RECURSIVE Slice(_, _)
Slice(t, n) ==
    IF Len(t) = 0 \/ Len(Head(t)) > n THEN <<>>
    ELSE <<Head(t)>> \o Slice(Tail(t), n - Len(Head(t)))

REASON_CHARS == 500
MAIN_REASON_CHARS == 1000

Seps == {":", " "}

\* re.search(r'confidence[:\s]+(\d+\.?\d*)', t): the start positions at which
\* the pattern matches (the separators' maximal run must end before a digit)
ConfidenceStarts(t) ==
    { i \in 1..Len(t) :
        /\ t[i] = "confidence"
        /\ LET e == RunEnd(t, i + 1, Seps)
           IN  e >= i + 1 /\ e + 1 <= Len(t) /\ t[e + 1] \in Digits }

\* group(1) of the match that starts at i: digits, an optional ".", digits
ConfidenceGroup(t, i) ==
    LET g == RunEnd(t, i + 1, Seps) + 1
        e1 == RunEnd(t, g, Digits)
        e2 == IF e1 + 1 <= Len(t) /\ t[e1 + 1] = "."
              THEN RunEnd(t, e1 + 2, Digits) ELSE e1
    IN  SubSeq(t, g, e2)

Min(S) == CHOOSE x \in S : \A y \in S : x <= y

\* a JSON object with the four keys the pipeline reads
Dict(d, c, r, rg) ==
    [kind |-> "dict", decision |-> d, confidence |-> c, reason |-> r,
     reasoning |-> rg]
\* JSON that parsed to something that is not an object (a list, a number)
NotADict ==
    [kind |-> "other", decision |-> Missing, confidence |-> Missing,
     reason |-> Missing, reasoning |-> Missing]

\* _parse_text_response with the two branches of lines 161-166 swapped: the
\* no-trade phrase is looked for first
parse_text_response_no_trade_first(text) ==
    LET text_lower == Lower(text)
        decision ==
            IF \/ Contains(text_lower, <<"no", "_", "trade">>)
               \/ Contains(text_lower, <<"no", " ", "trade">>)
            THEN NO_TRADE
            ELSE IF \/ Contains(text_lower, <<"take", "_", "trade">>)
                    \/ Contains(text_lower, <<"take", " ", "trade">>)
                 THEN TAKE_TRADE
                 ELSE NO_TRADE
        starts == ConfidenceStarts(text_lower)
        confidence ==
            IF starts # {}
            THEN PyMin(PyFloat(ConfidenceGroup(text_lower, Min(starts))).v, ONE)
            ELSE DEFAULT_CONFIDENCE
    IN  Dict(Str(decision), Num(confidence), Str(Slice(text, REASON_CHARS)),
             Missing)

\* DecisionPipeline._parse_text_response
_parse_text_response(text) ==
    LET text_lower == Lower(text)
        decision ==
            IF \/ Contains(text_lower, <<"take", "_", "trade">>)
               \/ Contains(text_lower, <<"take", " ", "trade">>)
            THEN TAKE_TRADE
            ELSE IF \/ Contains(text_lower, <<"no", "_", "trade">>)
                    \/ Contains(text_lower, <<"no", " ", "trade">>)
                 THEN NO_TRADE
                 ELSE NO_TRADE
        starts == ConfidenceStarts(text_lower)
        confidence ==
            IF starts # {}
            THEN PyMin(PyFloat(ConfidenceGroup(text_lower, Min(starts))).v, ONE)
            ELSE DEFAULT_CONFIDENCE
    IN  Dict(Str(decision), Num(confidence), Str(Slice(text, REASON_CHARS)),
             Missing)

\* re.search(r'(\d+)\s*%', t): the start positions at which it matches
PercentStarts(t) ==
    { i \in 1..Len(t) :
        /\ t[i] \in Digits
        /\ LET w == RunEnd(t, RunEnd(t, i, Digits) + 1, {" "})
           IN  w + 1 <= Len(t) /\ t[w + 1] = "%" }

MAIN_CONF_TAKE == Fin(6, 10)
MAIN_CONF_NO == Fin(4, 10)

\* main.DecisionPipeline._parse_response
_parse_response(text) ==
    LET text_lower == Lower(text)
        decision ==
            IF \/ Contains(text_lower, <<"take", "_", "trade">>)
               \/ Contains(text_lower, <<"take", " ", "trade">>)
            THEN TAKE_TRADE
            ELSE NO_TRADE
        starts == PercentStarts(text)
        confidence ==
            IF starts # {}
            THEN LET i == Min(starts)
                 IN  PyMin(Fin(IntOf(SubSeq(text, i, RunEnd(text, i, Digits))),
                               100), ONE)
            ELSE IF decision = TAKE_TRADE THEN MAIN_CONF_TAKE ELSE MAIN_CONF_NO
    IN  Returned(decision, confidence, Str(Slice(text, MAIN_REASON_CHARS)))

\* ------------------------------------------------------- what the LLM says

\* the pieces an LLM text answer is put together from
Chunks ==
    { <<"take", "_", "trade">>, <<"TAKE", " ", "TRADE">>,
      <<"no", "_", "trade">>, <<"take">>, <<"trade">>, <<" ">>,
      <<"Confidence", ":", " ">>, <<"confidence">>, <<":">>,
      <<"0", ".", "8">>, <<"8", "5">>, <<"1", ".">>, <<"%">>, <<"hold">> }

RECURSIVE Flatten(_)
Flatten(cs) == IF Len(cs) = 0 THEN <<>> ELSE Head(cs) \o Flatten(Tail(cs))

\* every text of at most MaxChunks chunks
Texts ==
    { Flatten(cs) : cs \in UNION { [1..n -> Chunks] : n \in 0..MaxChunks } }

DecisionStrs ==
    { TAKE_TRADE, <<"take", "_", "trade">>, <<"Take", "_", "Trade">>,
      NO_TRADE, <<"no", "_", "trade">>, <<"take", " ", "trade">>,
      <<" ", "TAKE", "_", "TRADE">>, <<"hold">>, <<>> }

DecisionVals ==
    {Missing, Null, Num(Fin(1, 1)), Bool(TRUE), List}
        \cup { Str(x) : x \in DecisionStrs }

ConfidenceVals ==
    {Missing, Null, List, Bool(TRUE), Bool(FALSE)}
        \cup { Num(x) : x \in { Fin(0, 1), Fin(1, 1), Fin(2, 1), Fin(-1, 1),
                                Fin(8, 10), Fin(15, 10), Fin(-5, 10),
                                NaN, PosInf, NegInf } }
        \cup { Str(x) : x \in { <<"0", ".", "8">>, <<"8", "5">>, <<"-", "1">>,
                                <<" ", ".", "5", " ">>, <<"hold">>,
                                <<"nan">>, <<>> } }

ReasonVals == {Missing, Null, Str(<<"hold">>)}
ReasoningVals == {Missing, Str(<<"trade">>)}

\* every JSON answer the model lets the LLM give
Responses ==
    { Dict(d, c, r, rg) : d \in DecisionVals, c \in ConfidenceVals,
                          r \in ReasonVals, rg \in ReasoningVals }
        \cup {NotADict}

\* ------------------------------------------------------------ memory store

\* config.Settings
MAX_SIMILAR_TRADES == 5
MAX_RULES_CONTEXT == 10
MIN_RULE_CONFIDENCE == Fin(6, 10)
\* VectorStore.search_similar_trades: the default of min_score
TRADES_MIN_SCORE == Fin(7, 10)

\* the embedding vectors the embeddings service can answer with, and the
\* placeholder [0.1] * EMBEDDING_DIMENSION of main.py
Embeddings == {"e1", "e2"}
MOCK_EMBEDDING == "mock"

\* cosine similarity of two vectors (the collections use Distance.COSINE)
cosine_similarity(a, b) ==
    CASE a = b -> Fin(1, 1)
      [] {a, b} = {"e1", "e2"} -> Fin(3, 10)
      [] {a, b} = {"mock", "e1"} -> Fin(8, 10)
      [] {a, b} = {"mock", "e2"} -> Fin(65, 100)

\* the first n elements of a sequence
Take(q, n) == SubSeq(q, 1, IF Len(q) < n THEN Len(q) ELSE n)

\* positions idx of points ordered by descending score against query vector
\* q (equal scores: the older point first)
RECURSIVE Ranked(_, _, _)
Ranked(points, q, idx) ==
    IF idx = {} THEN <<>>
    ELSE LET best == CHOOSE i \in idx : \A j \in idx :
                        \/ Lt(cosine_similarity(q, points[j].vector),
                              cosine_similarity(q, points[i].vector))
                        \/ /\ ~Lt(cosine_similarity(q, points[i].vector),
                                  cosine_similarity(q, points[j].vector))
                           /\ i <= j
         IN  <<best>> \o Ranked(points, q, idx \ {best})

\* AsyncQdrantClient.search: of the positions that pass the query filter,
\* those that score at least score_threshold, best first, cut at limit
QdrantSearch(points, q, passing, limit, score_threshold) ==
    Take(Ranked(points, q,
                { i \in passing :
                    ~Lt(cosine_similarity(q, points[i].vector),
                        score_threshold) }),
         limit)

\* VectorStore.store_trade_memory: the collection after the upsert
store_trade_memory(points, trade_id, embedding, metadata) ==
    Append(points, [vector |-> embedding, trade_id |-> trade_id,
                    symbol |-> metadata.symbol, result |-> metadata.result])

\* VectorStore.store_rule_memory: the collection after the upsert
store_rule_memory(points, rule_id, embedding, metadata) ==
    Append(points, [vector |-> embedding, rule_id |-> rule_id,
                    rule_type |-> metadata.rule_type,
                    confidence |-> metadata.confidence,
                    is_active |-> metadata.is_active])

\* VectorStore.search_similar_trades (symbol "" is no symbol filter)
search_similar_trades(points, embedding, symbol, limit, min_score) ==
    LET query_filter ==
            { i \in 1..Len(points) : symbol = "" \/ points[i].symbol = symbol }
        found ==
            QdrantSearch(points, embedding, query_filter, limit, min_score)
    IN  [k \in 1..Len(found) |->
            [id |-> found[k],
             score |-> cosine_similarity(embedding, points[found[k]].vector),
             trade_id |-> points[found[k]].trade_id,
             symbol |-> points[found[k]].symbol,
             result |-> points[found[k]].result]]

\* VectorStore.search_relevant_rules (rule_type "" is no type filter)
search_relevant_rules(points, embedding, rule_type, limit, min_score) ==
    LET query_filter ==
            { i \in 1..Len(points) :
                /\ points[i].is_active
                /\ rule_type = "" \/ points[i].rule_type = rule_type }
        found ==
            QdrantSearch(points, embedding, query_filter, limit, min_score)
    IN  [k \in 1..Len(found) |->
            [id |-> found[k],
             score |-> cosine_similarity(embedding, points[found[k]].vector),
             rule_id |-> points[found[k]].rule_id,
             rule_type |-> points[found[k]].rule_type,
             confidence |-> points[found[k]].confidence,
             is_active |-> points[found[k]].is_active]]

\* ----------------------------------------------------------- prompt, LLM

\* a number the format specs :.0% and :.2f accept
Formattable(v) == v.t \in {"num", "bool"}

\* prompts.decision_prompt.build_decision_prompt: the rules and trades the
\* system message lists; ok = FALSE when formatting a confidence raises
build_decision_prompt(similar_trades, relevant_rules) ==
    [ok |-> \A i \in 1..Len(relevant_rules) :
                Formattable(relevant_rules[i].confidence),
     rules |-> relevant_rules,
     trades |-> similar_trades]

MAIN_PROMPT_TRADES == 3
MAIN_PROMPT_RULES == 5

\* main.DecisionPipeline._build_prompt
_build_prompt(similar_trades, relevant_rules) ==
    [ok |-> \A i \in 1..Len(Take(relevant_rules, MAIN_PROMPT_RULES)) :
                Formattable(relevant_rules[i].confidence),
     rules |-> Take(relevant_rules, MAIN_PROMPT_RULES),
     trades |-> Take(similar_trades, MAIN_PROMPT_TRADES)]

NoMessages == [ok |-> FALSE, rules |-> <<>>, trades |-> <<>>]

\* the content of a chat completion: JSON, JSON inside prose, prose with
\* braces that do not parse, or prose without braces
Content(form, value) == [form |-> form, value |-> value]

\* MainLLMClient.get_json_response on a received content: json.loads, then
\* the {...} substring; ok = FALSE is JSONDecodeError or ValueError
get_json_response(content) ==
    CASE content.form = "json" -> [ok |-> TRUE, value |-> content.value]
      [] content.form = "wrapped" -> [ok |-> TRUE, value |-> content.value]
      [] content.form = "broken" -> [ok |-> FALSE, value |-> NotADict]
      [] content.form = "plain" -> [ok |-> FALSE, value |-> NotADict]

\* the JSON answers a decision run is tried with
RunResponses ==
    { Dict(Str(TAKE_TRADE), Num(Fin(8, 10)), Str(<<"hold">>), Missing),
      Dict(Str(<<"take", "_", "trade">>), Str(<<"8", "5">>), Missing,
           Str(<<"trade">>)),
      Dict(Str(<<"hold">>), Num(Fin(-1, 1)), Missing, Missing),
      Dict(Missing, Missing, Missing, Missing),
      Dict(Null, Num(Fin(8, 10)), Missing, Missing),
      NotADict }

RunContents ==
    { Content("json", r) : r \in RunResponses }
        \cup { Content("wrapped", Dict(Str(TAKE_TRADE), Num(Fin(2, 1)),
                                      Missing, Missing)),
               Content("plain", NotADict) }

\* the text answers a decision run is tried with
RunTexts ==
    { <<"TAKE", " ", "TRADE", " ", "Confidence", ":", " ", "8", "5">>,
      <<"take", "_", "trade", " ", "no", "_", "trade">>,
      <<"no", " ", "trade", " ", "8", "5", " ", "%">> }

RunSymbols == {"ES", ""}

\* ------------------------------------------------------------------- state

VARIABLES
    dec,            \* the decision run: position, locals, call log, result
    trades_memory,  \* Qdrant collection trades_memory
    rules_memory,   \* Qdrant collection rules_memory
    trades,         \* ledger table trades
    learning_queue, \* ledger table learning_queue
    rules,          \* ledger table rules
    statistics,     \* ledger table statistics
    rt,             \* the record_trade call in progress
    lr,             \* the execute_learning run: position, locals, call log
    waiting,        \* an execute_learning run suspended at an await
    http,           \* the last answer of POST /api/trade/closed
    fname, farg, fret   \* a helper function applied to an input

ledger == <<trades, learning_queue, rules, statistics>>
memory == <<trades_memory, rules_memory>>
helper == <<fname, farg, fret>>
vars == <<dec, trades_memory, rules_memory, trades, learning_queue, rules,
          statistics, rt, lr, waiting, http, fname, farg, fret>>

Pending == Raised("pending")

Ev(kind, what) == [ev |-> kind, what |-> what]

\* no decision run in progress
DecIdle ==
    [pc |-> "idle", variant |-> "", symbol |-> "", embedding |-> "",
     similar_trades |-> <<>>, relevant_rules |-> <<>>,
     messages |-> NoMessages, calls |-> <<>>, result |-> Pending,
     metadata |-> [similar_trades_count |-> 0, rules_applied_count |-> 0],
     answer |-> Pending]

\* the endpoint passing on whatever its pipeline run ended with
make_decision_unguarded(result) == result

\* main.py's make_decision (POST /api/decision) around its pipeline run: the
\* result the run returned, or the conservative answer when it raised
make_decision(result) ==
    IF result.ok
    THEN result
    ELSE Returned(NO_TRADE, Fin(5, 10),
                  Str(<<"Pipeline error: ", result.exc>>))

\* the run ends: its locals are gone, the caller sees r; the caller of
\* main.py's pipeline is the endpoint, which answers
DecEnd(d, events, r) ==
    [DecIdle EXCEPT !.pc = IF r.ok THEN "returned" ELSE "raised",
                    !.variant = d.variant, !.symbol = d.symbol,
                    !.calls = d.calls \o events, !.result = r,
                    !.answer = IF d.variant = "main"
                               THEN make_decision(r) ELSE Pending]

\* -------------------------------- pipelines/decision.py: DecisionPipeline

\* parse (text path only), normalize, return or raise: the end of execute
Finish(d, events, response) ==
    DecEnd(d, events, _normalize_response(response))

\* execute is called: the context is formatted and the embedding requested
execute_call(symbol) ==
    /\ dec.pc \in {"idle", "returned", "raised"}
    /\ dec' = [DecIdle EXCEPT !.pc = "embed", !.variant = "core",
                              !.symbol = symbol,
                              !.calls = <<Ev("call", "embed")>>]
    /\ UNCHANGED <<memory, ledger, rt, helper, lr, waiting, http>>

\* execute_embedded with steps 3 and 4 of execute out of order: the rules
\* search is requested first and the similar-trades search is skipped
execute_embedded_rules_first(e) ==
    /\ dec.pc = "embed" /\ dec.variant = "core"
    /\ dec' = [dec EXCEPT !.pc = "search_rules", !.embedding = e,
                          !.calls = @ \o <<Ev("ret", "embed"),
                                           Ev("call", "search_relevant_rules")>>]
    /\ UNCHANGED <<memory, ledger, rt, helper, lr, waiting, http>>

\* the embedding arrives; the similar-trades search is requested
execute_embedded(e) ==
    /\ dec.pc = "embed" /\ dec.variant = "core"
    /\ dec' = [dec EXCEPT !.pc = "search_trades", !.embedding = e,
                          !.calls = @ \o <<Ev("ret", "embed"),
                                           Ev("call", "search_similar_trades")>>]
    /\ UNCHANGED <<memory, ledger, rt, helper, lr, waiting, http>>

\* the embedding request fails: the exception leaves execute
execute_embed_failed ==
    /\ dec.pc = "embed" /\ dec.variant = "core"
    /\ dec' = DecEnd(dec, <<Ev("raise", "embed")>>, Raised("HTTPError"))
    /\ UNCHANGED <<memory, ledger, rt, helper, lr, waiting, http>>

\* execute_trades_found that also stores the query as a trade memory
execute_trades_found_storing ==
    /\ dec.pc = "search_trades" /\ dec.variant = "core"
    /\ dec' = [dec EXCEPT
                 !.pc = "search_rules",
                 !.similar_trades =
                     search_similar_trades(trades_memory, dec.embedding,
                                           dec.symbol, MAX_SIMILAR_TRADES,
                                           TRADES_MIN_SCORE),
                 !.calls = @ \o <<Ev("ret", "search_similar_trades"),
                                  Ev("call", "search_relevant_rules")>>]
    /\ trades_memory' =
           store_trade_memory(trades_memory, 0, dec.embedding,
                              [symbol |-> dec.symbol, result |-> Fin(0, 1)])
    /\ UNCHANGED <<rules_memory, ledger, rt, helper, lr, waiting, http>>

\* the similar trades arrive; the rules search is requested
execute_trades_found ==
    /\ dec.pc = "search_trades" /\ dec.variant = "core"
    /\ dec' = [dec EXCEPT
                 !.pc = "search_rules",
                 !.similar_trades =
                     search_similar_trades(trades_memory, dec.embedding,
                                           dec.symbol, MAX_SIMILAR_TRADES,
                                           TRADES_MIN_SCORE),
                 !.calls = @ \o <<Ev("ret", "search_similar_trades"),
                                  Ev("call", "search_relevant_rules")>>]
    /\ UNCHANGED <<memory, ledger, rt, helper, lr, waiting, http>>

\* execute_trades_failed that swallows the exception and goes on with no
\* similar trades
execute_trades_failed_empty ==
    /\ dec.pc = "search_trades" /\ dec.variant = "core"
    /\ dec' = [dec EXCEPT
                 !.pc = "search_rules", !.similar_trades = <<>>,
                 !.calls = @ \o <<Ev("raise", "search_similar_trades"),
                                  Ev("call", "search_relevant_rules")>>]
    /\ UNCHANGED <<memory, ledger, rt, helper, lr, waiting, http>>

\* the similar-trades search fails: the exception leaves execute
execute_trades_failed ==
    /\ dec.pc = "search_trades" /\ dec.variant = "core"
    /\ dec' = DecEnd(dec, <<Ev("raise", "search_similar_trades")>>,
                     Raised("QdrantError"))
    /\ UNCHANGED <<memory, ledger, rt, helper, lr, waiting, http>>

\* the rules arrive; the prompt is built and the JSON completion requested
execute_rules_found ==
    /\ dec.pc = "search_rules" /\ dec.variant = "core"
    /\ LET found == search_relevant_rules(rules_memory, dec.embedding, "",
                                          MAX_RULES_CONTEXT,
                                          MIN_RULE_CONFIDENCE)
           messages == build_decision_prompt(dec.similar_trades, found)
       IN  dec' =
             IF messages.ok
             THEN [dec EXCEPT
                     !.pc = "json", !.relevant_rules = found,
                     !.messages = messages,
                     !.calls = @ \o <<Ev("ret", "search_relevant_rules"),
                                      Ev("local", "build_prompt"),
                                      Ev("call", "get_json_response")>>]
             ELSE DecEnd(dec, <<Ev("ret", "search_relevant_rules"),
                                Ev("local", "build_prompt")>>,
                         Raised("ValueError"))
    /\ UNCHANGED <<memory, ledger, rt, helper, lr, waiting, http>>

\* the rules search fails: the exception leaves execute
execute_rules_failed ==
    /\ dec.pc = "search_rules" /\ dec.variant = "core"
    /\ dec' = DecEnd(dec, <<Ev("raise", "search_relevant_rules")>>,
                     Raised("QdrantError"))
    /\ UNCHANGED <<memory, ledger, rt, helper, lr, waiting, http>>

\* the JSON completion arrives: parsed, it is normalized and returned;
\* unparseable, the text completion is requested
execute_json_answered(content) ==
    /\ dec.pc = "json" /\ dec.variant = "core"
    /\ LET got == get_json_response(content)
       IN  dec' =
             IF got.ok
             THEN Finish(dec, <<Ev("ret", "get_json_response")>>, got.value)
             ELSE [dec EXCEPT
                     !.pc = "text",
                     !.calls = @ \o <<Ev("raise", "get_json_response"),
                                      Ev("call", "get_text_response")>>]
    /\ UNCHANGED <<memory, ledger, rt, helper, lr, waiting, http>>

\* the JSON completion request fails in transport: the text completion is
\* requested
execute_json_failed ==
    /\ dec.pc = "json" /\ dec.variant = "core"
    /\ dec' = [dec EXCEPT
                 !.pc = "text",
                 !.calls = @ \o <<Ev("raise", "get_json_response"),
                                  Ev("call", "get_text_response")>>]
    /\ UNCHANGED <<memory, ledger, rt, helper, lr, waiting, http>>

\* the text completion arrives: parsed heuristically, normalized, returned
execute_text_answered(text) ==
    /\ dec.pc = "text" /\ dec.variant = "core"
    /\ dec' = Finish(dec, <<Ev("ret", "get_text_response")>>,
                     _parse_text_response(text))
    /\ UNCHANGED <<memory, ledger, rt, helper, lr, waiting, http>>

\* execute_text_failed that answers with a default verdict instead of raising
execute_text_failed_default ==
    /\ dec.pc = "text" /\ dec.variant = "core"
    /\ dec' = Finish(dec, <<Ev("raise", "get_text_response")>>,
                     Dict(Str(NO_TRADE), Num(DEFAULT_CONFIDENCE), Missing,
                          Missing))
    /\ UNCHANGED <<memory, ledger, rt, helper, lr, waiting, http>>

\* the text completion request fails too: the exception leaves execute
execute_text_failed ==
    /\ dec.pc = "text" /\ dec.variant = "core"
    /\ dec' = DecEnd(dec, <<Ev("raise", "get_text_response")>>,
                     Raised("RetryError"))
    /\ UNCHANGED <<memory, ledger, rt, helper, lr, waiting, http>>

DecisionRun ==
    \/ \E symbol \in RunSymbols : execute_call(symbol)
    \/ \E e \in Embeddings : execute_embedded(e)
    \/ execute_embed_failed
    \/ execute_trades_found
    \/ execute_trades_failed
    \/ execute_rules_found
    \/ execute_rules_failed
    \/ \E content \in RunContents : execute_json_answered(content)
    \/ execute_json_failed
    \/ \E text \in RunTexts : execute_text_answered(text)
    \/ execute_text_failed

\* ------------------------------------------- main.py: DecisionPipeline

MAIN_LOG_RULES == 3

\* steps 3 to 5 of main's execute once the rules are settled: build the
\* prompt and request the text completion
MainPrompt(d, events, found) ==
    LET prompt == _build_prompt(d.similar_trades, found)
    IN  IF prompt.ok
        THEN [d EXCEPT !.pc = "llm", !.relevant_rules = found,
                       !.messages = prompt,
                       !.calls = @ \o events
                                   \o <<Ev("local", "build_prompt"),
                                        Ev("call", "get_text_response")>>]
        ELSE DecEnd(d, events \o <<Ev("local", "build_prompt")>>,
                    Raised("ValueError"))

\* execute is called: the context is formatted and the embedding requested
main_execute_call(symbol) ==
    /\ dec.pc \in {"idle", "returned", "raised"}
    /\ dec' = [DecIdle EXCEPT !.pc = "embed", !.variant = "main",
                              !.symbol = symbol,
                              !.calls = <<Ev("call", "embed")>>]
    /\ UNCHANGED <<memory, ledger, rt, helper, lr, waiting, http>>

\* the embedding arrives; the similar-trades search is requested
main_embedded(e) ==
    /\ dec.pc = "embed" /\ dec.variant = "main"
    /\ dec' = [dec EXCEPT !.pc = "search_trades", !.embedding = e,
                          !.calls = @ \o <<Ev("ret", "embed"),
                                           Ev("call", "search_similar_trades")>>]
    /\ UNCHANGED <<memory, ledger, rt, helper, lr, waiting, http>>

\* the embedding request fails: the mock embedding stands in for it
main_embed_failed ==
    /\ dec.pc = "embed" /\ dec.variant = "main"
    /\ dec' = [dec EXCEPT !.pc = "search_trades",
                          !.embedding = MOCK_EMBEDDING,
                          !.calls = @ \o <<Ev("raise", "embed"),
                                           Ev("call", "search_similar_trades")>>]
    /\ UNCHANGED <<memory, ledger, rt, helper, lr, waiting, http>>

\* the similar trades arrive; the rules search is requested
main_trades_found ==
    /\ dec.pc = "search_trades" /\ dec.variant = "main"
    /\ dec' = [dec EXCEPT
                 !.pc = "search_rules",
                 !.similar_trades =
                     search_similar_trades(trades_memory, dec.embedding,
                                           dec.symbol, MAX_SIMILAR_TRADES,
                                           TRADES_MIN_SCORE),
                 !.calls = @ \o <<Ev("ret", "search_similar_trades"),
                                  Ev("call", "search_relevant_rules")>>]
    /\ UNCHANGED <<memory, ledger, rt, helper, lr, waiting, http>>

\* the similar-trades search fails: the run goes on with no similar trades
main_trades_failed ==
    /\ dec.pc = "search_trades" /\ dec.variant = "main"
    /\ dec' = [dec EXCEPT
                 !.pc = "search_rules", !.similar_trades = <<>>,
                 !.calls = @ \o <<Ev("raise", "search_similar_trades"),
                                  Ev("call", "search_relevant_rules")>>]
    /\ UNCHANGED <<memory, ledger, rt, helper, lr, waiting, http>>

\* the rules arrive (logging the first three inside the try: a confidence
\* that does not format empties the list); prompt built, completion requested
main_rules_found ==
    /\ dec.pc = "search_rules" /\ dec.variant = "main"
    /\ LET found == search_relevant_rules(rules_memory, dec.embedding, "",
                                          MAX_RULES_CONTEXT,
                                          MIN_RULE_CONFIDENCE)
           logged == \A i \in 1..Len(Take(found, MAIN_LOG_RULES)) :
                         Formattable(found[i].confidence)
       IN  dec' = MainPrompt(dec, <<Ev("ret", "search_relevant_rules")>>,
                             IF logged THEN found ELSE <<>>)
    /\ UNCHANGED <<memory, ledger, rt, helper, lr, waiting, http>>

\* the rules search fails: the run goes on with no rules
main_rules_failed ==
    /\ dec.pc = "search_rules" /\ dec.variant = "main"
    /\ dec' = MainPrompt(dec, <<Ev("raise", "search_relevant_rules")>>, <<>>)
    /\ UNCHANGED <<memory, ledger, rt, helper, lr, waiting, http>>

\* the text completion arrives: parsed, returned with the run's metadata
main_llm_answered(text) ==
    /\ dec.pc = "llm" /\ dec.variant = "main"
    /\ dec' = [DecEnd(dec, <<Ev("ret", "get_text_response")>>,
                      _parse_response(text))
                 EXCEPT !.metadata =
                     [similar_trades_count |-> Len(dec.similar_trades),
                      rules_applied_count |-> Len(dec.relevant_rules)]]
    /\ UNCHANGED <<memory, ledger, rt, helper, lr, waiting, http>>

\* the text completion request fails: the exception leaves execute
main_llm_failed ==
    /\ dec.pc = "llm" /\ dec.variant = "main"
    /\ dec' = DecEnd(dec, <<Ev("raise", "get_text_response")>>,
                     Raised("RetryError"))
    /\ UNCHANGED <<memory, ledger, rt, helper, lr, waiting, http>>

MainDecisionRun ==
    \/ \E symbol \in RunSymbols : main_execute_call(symbol)
    \/ \E e \in Embeddings : main_embedded(e)
    \/ main_embed_failed
    \/ main_trades_found
    \/ main_trades_failed
    \/ main_rules_found
    \/ main_rules_failed
    \/ \E text \in RunTexts : main_llm_answered(text)
    \/ main_llm_failed

\* ------------------------------------ writers of the memory collections

RuleMetadata ==
    { [rule_type |-> "ENTRY", confidence |-> Num(Fin(5, 10)),
       is_active |-> TRUE],
      [rule_type |-> "ENTRY", confidence |-> Num(Fin(9, 10)),
       is_active |-> TRUE],
      [rule_type |-> "ENTRY", confidence |-> Num(Fin(9, 10)),
       is_active |-> FALSE],
      [rule_type |-> "ENTRY", confidence |-> Str(<<"0", ".", "8">>),
       is_active |-> TRUE] }

\* the trade memories written: <<embedding, metadata>>
TradeMemories ==
    { <<"e1", [symbol |-> "ES", result |-> Fin(5, 1)]>>,
      <<"e1", [symbol |-> "NQ", result |-> Fin(5, 1)]>>,
      <<"e2", [symbol |-> "ES", result |-> Fin(0 - 4, 1)]>> }

\* a caller stores a trade memory entry
StoreTradeMemory(trade_id, embedding, metadata) ==
    /\ Len(trades_memory) < MaxTradePoints
    /\ trades_memory' =
           store_trade_memory(trades_memory, trade_id, embedding, metadata)
    /\ UNCHANGED <<dec, rules_memory, ledger, rt, helper, lr, waiting, http>>

\* a caller stores a rule memory entry
StoreRuleMemory(rule_id, embedding, metadata) ==
    /\ Len(rules_memory) < MaxRulePoints
    /\ rules_memory' =
           store_rule_memory(rules_memory, rule_id, embedding, metadata)
    /\ UNCHANGED <<dec, trades_memory, ledger, rt, helper, lr, waiting, http>>

MemoryWrites ==
    \/ \E m \in TradeMemories : StoreTradeMemory(1, m[1], m[2])
    \/ \E m \in RuleMetadata : StoreRuleMemory("r1", "e1", m)

\* ------------------------------ pipelines/learning.py: record_trade

ABSENT == "<absent>"
\* context.get(key, default)
CtxGet(v, default) == IF v = ABSENT THEN default ELSE v

\* Numeric(10, 4): four decimals, fewer than 10^6 before the point
RESULT_PERCENT_SCALE == 10000
RESULT_PERCENT_LIMIT == 1000000

Abs(x) == IF x < 0 THEN 0 - x ELSE x

\* n/d (d # 0) rounded to the nearest multiple of 1/scale, as a fraction
Quantize(n, d, scale) ==
    LET q == (2 * Abs(n) * scale + Abs(d)) \div (2 * Abs(d))
    IN  Fin(IF (n < 0) = (d < 0) THEN q ELSE 0 - q, scale)

\* result_percent as a fraction of the entry price, not as a percentage
result_percent_fraction(entry, exit) ==
    IF entry # 0
    THEN Quantize(exit - entry, entry, RESULT_PERCENT_SCALE)
    ELSE Fin(0, RESULT_PERCENT_SCALE)

\* ((exit - entry) / entry * 100) if entry else 0, as the column stores it
result_percent(entry, exit) ==
    IF entry # 0
    THEN Quantize((exit - entry) * 100, entry, RESULT_PERCENT_SCALE)
    ELSE Fin(0, RESULT_PERCENT_SCALE)

\* the JSON column extracted_rules: not set, or the list stored in it
NoRules == [set |-> FALSE, rules |-> <<>>]
StoredRules(rs) == [set |-> TRUE, rules |-> rs]

\* the Trade row record_trade builds (its id is set when it is inserted)
Trade(trade_id, entry, exit, result, context) ==
    [id |-> 0, trade_id |-> trade_id,
     symbol |-> CtxGet(context.symbol, "UNKNOWN"),
     timeframe |-> CtxGet(context.timeframe, "1m"),
     direction |-> CtxGet(context.direction, "LONG"),
     entry_price |-> entry, exit_price |-> exit, result |-> result,
     result_percent |-> result_percent(entry, exit),
     critique |-> Null, extracted_rules |-> NoRules,
     learning_processed_at |-> ABSENT]

\* the LearningQueue row for a trade, with the column defaults
LearningQueue(id, trade) ==
    [id |-> id, trade_id |-> trade, status |-> "PENDING", attempts |-> 0,
     last_error |-> ABSENT, completed_at |-> ABSENT]

RtIdle == [pc |-> "idle", trade |-> Trade("", 0, 0, 0,
                                          [symbol |-> ABSENT,
                                           timeframe |-> ABSENT,
                                           direction |-> ABSENT]),
           before |-> [trades |-> <<>>, learning_queue |-> <<>>],
           ret |-> 0]

\* record_trade is called: the Trade is added to the session, commit awaited
record_trade_call(trade_id, entry, exit, result, context) ==
    /\ rt.pc \in {"idle", "returned", "raised"}
    /\ Len(trades) < MaxTrades
    /\ rt' = [pc |-> "commit_trade",
              trade |-> Trade(trade_id, entry, exit, result, context),
              before |-> [trades |-> trades,
                         learning_queue |-> learning_queue],
              ret |-> 0]
    /\ UNCHANGED <<dec, memory, ledger, helper, lr, waiting, http>>

\* the first commit succeeds: the trade is in the ledger (trade_id is unique,
\* result_percent fits its column); refreshed, its queue item is added and
\* the second commit awaited
record_trade_trade_committed ==
    /\ rt.pc = "commit_trade"
    /\ \A i \in 1..Len(trades) : trades[i].trade_id # rt.trade.trade_id
    /\ Abs(rt.trade.result_percent.num) \div RESULT_PERCENT_SCALE
           < RESULT_PERCENT_LIMIT
    /\ trades' = Append(trades, [rt.trade EXCEPT !.id = Len(trades) + 1])
    /\ rt' = [rt EXCEPT !.pc = "commit_queue",
                        !.trade.id = Len(trades) + 1]
    /\ UNCHANGED <<dec, memory, learning_queue, rules, statistics, helper, lr,
                   waiting, http>>

\* the first commit fails: nothing is recorded, the exception leaves
record_trade_trade_rejected ==
    /\ rt.pc = "commit_trade"
    /\ rt' = [rt EXCEPT !.pc = "raised"]
    /\ UNCHANGED <<dec, memory, ledger, helper, lr, waiting, http>>

\* the second commit succeeds: the queue item is in the ledger and the
\* trade's internal id is returned
record_trade_queued ==
    /\ rt.pc = "commit_queue"
    /\ learning_queue' =
           Append(learning_queue,
                  LearningQueue(Len(learning_queue) + 1, rt.trade.id))
    /\ rt' = [rt EXCEPT !.pc = "returned", !.ret = rt.trade.id]
    /\ UNCHANGED <<dec, memory, trades, rules, statistics, helper, lr,
                   waiting, http>>

\* the refresh or the second commit fails: the exception leaves, the trade
\* stays recorded
record_trade_queue_failed ==
    /\ rt.pc = "commit_queue"
    /\ rt' = [rt EXCEPT !.pc = "raised"]
    /\ UNCHANGED <<dec, memory, ledger, helper, lr, waiting, http>>

Contexts ==
    { [symbol |-> "ES", timeframe |-> "5m", direction |-> "SHORT"],
      [symbol |-> ABSENT, timeframe |-> ABSENT, direction |-> ABSENT] }

\* record_trade with every modelled input
RecordTrade ==
    \/ \E trade_id \in {"T1", "T2"}, entry \in {0, 3, 100}, exit \in {4, 105},
          context \in Contexts :
            record_trade_call(trade_id, entry, exit, exit - entry, context)
    \/ record_trade_trade_committed
    \/ record_trade_trade_rejected
    \/ record_trade_queued
    \/ record_trade_queue_failed

\* record_trade with the inputs of the end-to-end scenario
RecordTradeScenario ==
    \/ record_trade_call("T1", 100, 105, 5,
                         [symbol |-> "ES", timeframe |-> "1m",
                          direction |-> "LONG"])
    \/ record_trade_trade_committed
    \/ record_trade_trade_rejected
    \/ record_trade_queued
    \/ record_trade_queue_failed

\* ------------------------------ pipelines/learning.py: _update_statistics

RECURSIVE Gcd(_, _)
Gcd(a, b) == IF b = 0 THEN a ELSE Gcd(b, a % b)

\* the number n / d in lowest terms (d is not zero)
Ratio(n, d) ==
    LET g == Gcd(Abs(n), Abs(d))
        s == IF d < 0 THEN 0 - 1 ELSE 1
    IN  Fin(s * (n \div g), s * (d \div g))

Plus(a, b) == Ratio(a.num * b.den + b.num * a.den, a.den * b.den)
Times(a, b) == Ratio(a.num * b.num, a.den * b.den)
Over(a, b) == Ratio(a.num * b.den, a.den * b.num)
Magnitude(a) == Fin(Abs(a.num), a.den)

RECURSIVE Sum(_)
Sum(s) == IF s = <<>> THEN 0 ELSE Head(s) + Sum(Tail(s))

\* a Statistic row as the ledger holds it: every column default applied
Statistic(id, symbol, timeframe) ==
    [id |-> id, symbol |-> symbol, timeframe |-> timeframe,
     total_trades |-> 0, winning_trades |-> 0, losing_trades |-> 0,
     total_pnl |-> Fin(0, 1), avg_win |-> Fin(0, 1), avg_loss |-> Fin(0, 1),
     max_win |-> Fin(0, 1), max_loss |-> Fin(0, 1),
     win_rate |-> Fin(0, 1), profit_factor |-> Fin(0, 1),
     expectancy |-> Fin(0, 1)]

\* the results of the ledger's trades for a symbol that pass a filter, in
\* table order
RECURSIVE Results(_, _, _)
Results(all_trades, symbol, sign) ==
    IF all_trades = <<>> THEN <<>>
    ELSE LET t == Head(all_trades)
             rest == Results(Tail(all_trades), symbol, sign)
         IN  IF t.symbol = symbol /\ t.result * sign > 0
             THEN <<t.result>> \o rest
             ELSE rest

\* what _update_statistics leaves: whether it returned, the exception when
\* it did not, whether the row existed, and the Statistic object as it
\* stands at the return or at the raise
Updated(row) == [ok |-> TRUE, exc |-> "", existed |-> TRUE, row |-> row]
UpdateRaised(existed, row) ==
    [ok |-> FALSE, exc |-> "TypeError", existed |-> existed, row |-> row]
NotUpdated ==
    [ok |-> FALSE, exc |-> "", existed |-> FALSE,
     row |-> Statistic(0, "", "")]

\* the indices of the Statistic rows of a key (at most one: the table has a
\* unique constraint on symbol and timeframe)
StatisticAt(stats, symbol, timeframe) ==
    { i \in 1..Len(stats) :
        stats[i].symbol = symbol /\ stats[i].timeframe = timeframe }

\* _update_statistics on the trade being learned.
\*  - No row for the key: Statistic(symbol=..., timeframe=...) is built and
\*    added to the session, unflushed. The column defaults (default=0) are
\*    applied by the INSERT, so the new object's total_trades is None and
\*    "stat.total_trades += 1" raises TypeError.
\*  - A row loaded from the ledger holds int counters and Decimal amounts
\*    (Numeric columns); the averages and win_rate assigned here are floats.
\*    Python refuses to mix the two: Decimal / float and float * Decimal
\*    raise TypeError. avg_win_is_float and avg_loss_is_float record which
\*    of the averages was reassigned in this call.
\* Amounts are exact fractions; the rounding of the Numeric columns is left
\* out.
_update_statistics(stats, trade, all_trades) ==
    LET at == StatisticAt(stats, trade.symbol, trade.timeframe)
    IN
    IF at = {}
    THEN UpdateRaised(FALSE, Statistic(0, trade.symbol, trade.timeframe))
    ELSE
    LET stat == stats[CHOOSE i \in at : TRUE]
        result == Fin(trade.result, 1)
        win == trade.result # 0 /\ trade.result > 0
        total_trades == stat.total_trades + 1
        winning_trades == stat.winning_trades + (IF win THEN 1 ELSE 0)
        losing_trades == stat.losing_trades + (IF win THEN 0 ELSE 1)
        total_pnl == IF win \/ trade.result # 0
                     THEN Plus(stat.total_pnl, result)
                     ELSE stat.total_pnl
        max_win == IF win /\ Lt(stat.max_win, result)
                   THEN result ELSE stat.max_win
        max_loss == IF ~win /\ trade.result # 0 /\ Lt(result, stat.max_loss)
                    THEN result ELSE stat.max_loss
        win_rate == IF total_trades > 0
                    THEN Ratio(winning_trades, total_trades)
                    ELSE stat.win_rate
        wins == Results(all_trades, trade.symbol, 1)
        losses == Results(all_trades, trade.symbol, 0 - 1)
        avg_win_is_float == winning_trades > 0 /\ wins # <<>>
        avg_loss_is_float == losing_trades > 0 /\ losses # <<>>
        avg_win == IF avg_win_is_float
                   THEN Ratio(Sum(wins), Len(wins)) ELSE stat.avg_win
        avg_loss == IF avg_loss_is_float
                    THEN Ratio(Sum(losses), Len(losses)) ELSE stat.avg_loss
        gross_wins == Times(avg_win, Fin(winning_trades, 1))
        gross_losses == Magnitude(Times(avg_loss, Fin(losing_trades, 1)))
        divides == /\ avg_loss.num # 0
                   /\ Lt(avg_loss, Fin(0, 1))
                   /\ Lt(Fin(0, 1), gross_losses)
        multiplies == win_rate.num # 0
        counted == [stat EXCEPT !.total_trades = total_trades,
                                !.winning_trades = winning_trades,
                                !.losing_trades = losing_trades,
                                !.total_pnl = total_pnl,
                                !.max_win = max_win,
                                !.max_loss = max_loss,
                                !.win_rate = win_rate,
                                !.avg_win = avg_win,
                                !.avg_loss = avg_loss]
        factored == IF divides
                    THEN [counted EXCEPT
                             !.profit_factor = Over(gross_wins, gross_losses)]
                    ELSE counted
        expected == IF multiplies
                    THEN [factored EXCEPT
                             !.expectancy =
                                 Plus(Times(win_rate, avg_win),
                                      Times(Plus(Fin(1, 1),
                                                 Times(Fin(0 - 1, 1),
                                                       win_rate)),
                                            avg_loss))]
                    ELSE factored
    IN
    CASE divides /\ avg_win_is_float # avg_loss_is_float ->
             UpdateRaised(TRUE, counted)
      [] multiplies /\ ~(avg_win_is_float /\ avg_loss_is_float) ->
             UpdateRaised(TRUE, factored)
      [] OTHER -> Updated(expected)

\* -------------------------------- pipelines/learning.py: execute_learning

\* _create_trade_summary: the trade's fields as the prompts and the trade
\* memory carry them
_create_trade_summary(trade) ==
    [symbol |-> trade.symbol, timeframe |-> trade.timeframe,
     direction |-> trade.direction, entry_price |-> trade.entry_price,
     exit_price |-> trade.exit_price, result |-> trade.result,
     result_type |-> IF trade.result # 0 /\ trade.result > 0
                     THEN "WIN" ELSE "LOSS",
     result_percent |-> trade.result_percent]

\* a critique: a JSON object with the keys the critique prompt asks for
\* (each may be missing), or JSON that is not an object
Critique(summary, points, score) ==
    [kind |-> "dict", summary |-> summary, what_went_well |-> points,
     what_went_wrong |-> points, lessons_learned |-> points,
     overall_score |-> score]
\* (a JSON array, in the model)
NotACritique == [Critique(Missing, <<>>, Missing) EXCEPT !.kind = "other"]
NoCritique == [Critique(Missing, <<>>, Missing) EXCEPT !.kind = "none"]

\* the text response as the summary of a critique without a score
TextCritiqueUnscored(text) == Critique(Str(text), <<>>, Missing)

\* the dict _critique_trade builds from the text response
TextCritique(text) == Critique(Str(text), <<>>, Num(DEFAULT_CONFIDENCE))

\* the critic's JSON answers to the critique prompt
CritiqueAnswers ==
    { Critique(Str(<<"late", "entry">>), <<"stop">>, Num(Fin(7, 10))),
      Critique(Missing, <<"stop">>, Num(Fin(7, 10))),
      NotACritique }

\* the critic's text answers to the critique prompt
CritiqueTexts == { <<"entered", "too", "late">> }

\* build_rule_extraction_prompt: the summary and the critique (json.dumps)
\* it embeds
build_rule_extraction_prompt(trade_summary, critique) ==
    [trade_summary |-> trade_summary, critique |-> critique]
NoPrompt ==
    [trade_summary |-> _create_trade_summary(RtIdle.trade),
     critique |-> NoCritique]

\* an item of the "rules" list: a JSON object (each key may be missing) or
\* something else
RuleItem(rule_text, rule_type, confidence) ==
    [kind |-> "dict", rule_text |-> rule_text, rule_type |-> rule_type,
     confidence |-> confidence]
\* (a JSON string, in the model)
NotAMapping == [RuleItem(Missing, ABSENT, Missing) EXCEPT !.kind = "other"]
WaitRule == RuleItem(Str(<<"wait", "for", "confirmation">>), "ENTRY",
                     Num(Fin(8, 10)))
BareRule == RuleItem(Missing, ABSENT, Missing)
\* (a type the prompt does not list, a confidence above 1)
OddRule == RuleItem(Str(<<"scalp", "the", "open">>), "SCALP", Num(Fin(3, 2)))

\* the critic's JSON answers to the rule-extraction prompt: an object whose
\* "rules" is a list, is missing or is something else, or JSON that is not
\* an object
RulesResponse(kind, shape, items) ==
    [kind |-> kind, shape |-> shape, items |-> items]
RulesAnswers ==
    { RulesResponse("dict", "list", <<>>),
      RulesResponse("dict", "list", <<WaitRule>>),
      RulesResponse("dict", "list", <<BareRule, WaitRule>>),
      RulesResponse("dict", "list", <<OddRule>>),
      RulesResponse("dict", "list", <<NotAMapping>>),
      RulesResponse("dict", "missing", <<>>),
      RulesResponse("dict", "other", <<>>),
      RulesResponse("other", "other", <<>>) }

\* the rules _extract_rules returns for an answer: response.get("rules", [])
\* (AttributeError, caught, when the answer is not an object), replaced by
\* [] unless it is a list
extracted(response) ==
    IF response.kind = "dict" /\ response.shape = "list"
    THEN response.items
    ELSE <<>>

\* the Rule row _store_rules adds for a rule with a text
Rule(id, rule_data, source_trade_id) ==
    [id |-> id, rule_text |-> rule_data.rule_text.s,
     rule_type |-> CtxGet(rule_data.rule_type, "PATTERN"),
     confidence |-> Get(rule_data.confidence, Num(DEFAULT_CONFIDENCE)),
     source_trade_id |-> source_trade_id, is_active |-> TRUE]

\* "if rule_text:" on rule.get("rule_text", "")
HasText(rule) == rule.rule_text.t = "str" /\ rule.rule_text.s # <<>>

\* the rules table with a row for every item, with a text or without
RECURSIVE store_rules_textless(_, _, _)
store_rules_textless(rows, trade, extracted_rules) ==
    IF extracted_rules = <<>> THEN rows
    ELSE store_rules_textless(Append(rows, Rule(Len(rows) + 1,
                                                 Head(extracted_rules),
                                                 trade.id)),
                              trade, Tail(extracted_rules))

\* _store_rules: the rules table with a row for each rule that has a text
RECURSIVE _store_rules(_, _, _)
_store_rules(rows, trade, extracted_rules) ==
    IF extracted_rules = <<>> THEN rows
    ELSE LET rule_data == Head(extracted_rules)
         IN  _store_rules(IF HasText(rule_data)
                          THEN Append(rows, Rule(Len(rows) + 1, rule_data,
                                                 trade.id))
                          ELSE rows,
                          trade, Tail(extracted_rules))

\* the embedding the service returns for the texts of a learning run
LearningEmbedding == "e1"

\* no execute_learning run in progress
LrIdle ==
    [pc |-> "idle", trade_id |-> 0, text |-> <<>>, critique |-> NoCritique,
     prompt |-> NoPrompt, extracted_rules |-> <<>>, i |-> 0, row |-> <<>>,
     error |-> "", stat |-> NotUpdated, calls |-> <<>>, failed |-> {},
     runs |-> 0, done |-> <<>>]

\* the trade the run loaded: the row with the internal id it was given
Loaded(trade_id) ==
    trades[CHOOSE i \in 1..Len(trades) : trades[i].id = trade_id]

\* str(e) of the AttributeError that critique.get raises on a list and
\* rule.get on a string
ListHasNoGet == "'list' object has no attribute 'get'"
StrHasNoGet == "'str' object has no attribute 'get'"

\* an exception reaches the handler of execute_learning: the session is
\* left without a commit, the handler opens its own
Fail(l, events, e) ==
    [l EXCEPT !.pc = "handler", !.error = e,
              !.calls = @ \o events \o <<Ev("call", "ledger")>>]

\* the calls of a log that raised
Failed(calls) ==
    { calls[i].what : i \in { j \in 1..Len(calls) : calls[j].ev = "raise" } }

\* execute_learning ends, returning or with an exception leaving it: its
\* locals are gone; what stays is for the properties to read (the error
\* handled, the Statistic row the session was given, the outcome of
\* _update_statistics, the calls that raised)
LrEnd(l, events, pc) ==
    [LrIdle EXCEPT !.pc = pc, !.trade_id = l.trade_id, !.error = l.error,
                   !.row = l.row,
                   !.stat = l.stat, !.failed = Failed(l.calls \o events),
                   !.runs = l.runs, !.done = Append(l.done, l.trade_id)]

\* the for loop of _store_in_memory from item i on: the first item that is
\* not a mapping or that has a text, or the end of the list
RECURSIVE NextRule(_, _)
NextRule(extracted_rules, i) ==
    IF i > Len(extracted_rules) THEN i
    ELSE IF extracted_rules[i].kind # "dict" \/ HasText(extracted_rules[i])
         THEN i
         ELSE NextRule(extracted_rules, i + 1)

\* the run from item i of the loop to its next await: rule.get raises
\* AttributeError on an item that is not a mapping; a rule with a text has
\* its embedding requested; after the last item critique.get("summary", "")
\* raises AttributeError on a critique that is not an object, otherwise
\* the trade is marked, the rules are added to the session and
\* _update_statistics asks the ledger for the Statistic row of the key
Advance(l, events, i) ==
    LET j == NextRule(l.extracted_rules, i)
        m == [l EXCEPT !.i = j]
    IN  IF j <= Len(l.extracted_rules) /\ l.extracted_rules[j].kind # "dict"
        THEN Fail(m, events \o <<Ev("error", "rule.get")>>, StrHasNoGet)
        ELSE IF j <= Len(l.extracted_rules)
        THEN [m EXCEPT !.pc = "embed_rule",
                       !.calls = @ \o events \o <<Ev("call", "embed")>>]
        ELSE IF l.critique.kind # "dict"
        THEN Fail(m, events \o <<Ev("error", "critique.get")>>,
                  ListHasNoGet)
        ELSE [m EXCEPT !.pc = "statistic",
                       !.calls = @ \o events \o <<Ev("call", "ledger")>>]

\* execute_learning is called: the session opens and the trade is selected
execute_learning_call(trade_id) ==
    /\ lr.pc \in {"idle", "returned", "raised"}
    /\ lr' = [LrIdle EXCEPT !.pc = "load", !.trade_id = trade_id,
                            !.calls = <<Ev("call", "ledger")>>,
                            !.runs = lr.runs + 1, !.done = lr.done]
    /\ UNCHANGED <<dec, memory, ledger, rt, helper, waiting, http>>

\* the select answering, a missing trade being an error for the handler
execute_learning_loaded_or_raised ==
    /\ lr.pc = "load"
    /\ lr' = IF \E i \in 1..Len(trades) : trades[i].id = lr.trade_id
             THEN [lr EXCEPT !.pc = "critique_json",
                             !.calls = @ \o <<Ev("ret", "ledger"),
                                              Ev("call", "critique_json")>>]
             ELSE Fail(lr, <<Ev("ret", "ledger")>>, "NoResultFound")
    /\ UNCHANGED <<dec, memory, ledger, rt, helper, waiting, http>>

\* the select answers. No such trade: execute_learning returns. Otherwise
\* the summary is made and the critique requested as JSON
execute_learning_loaded ==
    /\ lr.pc = "load"
    /\ lr' = IF \E i \in 1..Len(trades) : trades[i].id = lr.trade_id
             THEN [lr EXCEPT !.pc = "critique_json",
                             !.calls = @ \o <<Ev("ret", "ledger"),
                                              Ev("call", "critique_json")>>]
             ELSE [lr EXCEPT !.pc = "returned",
                             !.calls = @ \o <<Ev("ret", "ledger")>>]
    /\ UNCHANGED <<dec, memory, ledger, rt, helper, waiting, http>>

\* the critic answers with JSON: that is the critique; the rule-extraction
\* prompt is built around it and the rules requested
execute_learning_critiqued(critique) ==
    /\ lr.pc = "critique_json"
    /\ lr' = [lr EXCEPT
                 !.pc = "rules_json", !.critique = critique,
                 !.prompt = build_rule_extraction_prompt(
                                _create_trade_summary(Loaded(lr.trade_id)),
                                critique),
                 !.calls = @ \o <<Ev("ret", "critique_json"),
                                  Ev("call", "rules_json")>>]
    /\ UNCHANGED <<dec, memory, ledger, rt, helper, waiting, http>>

\* the JSON request fails (transport, or no JSON in the answer): the same
\* messages are sent again for a text answer
execute_learning_critique_json_failed ==
    /\ lr.pc = "critique_json"
    /\ lr' = [lr EXCEPT !.pc = "critique_text",
                        !.calls = @ \o <<Ev("raise", "critique_json"),
                                         Ev("call", "critique_text")>>]
    /\ UNCHANGED <<dec, memory, ledger, rt, helper, waiting, http>>

\* the text answer becomes the critique's summary; the rules are requested
execute_learning_critique_text(text) ==
    /\ lr.pc = "critique_text"
    /\ lr' = [lr EXCEPT
                 !.pc = "rules_json", !.text = text,
                 !.critique = TextCritique(text),
                 !.prompt = build_rule_extraction_prompt(
                                _create_trade_summary(Loaded(lr.trade_id)),
                                TextCritique(text)),
                 !.calls = @ \o <<Ev("ret", "critique_text"),
                                  Ev("call", "rules_json")>>]
    /\ UNCHANGED <<dec, memory, ledger, rt, helper, waiting, http>>

\* the text request fails too: the exception reaches the handler
execute_learning_critique_text_failed ==
    /\ lr.pc = "critique_text"
    /\ lr' = Fail(lr, <<Ev("raise", "critique_text")>>, "critique_text")
    /\ UNCHANGED <<dec, memory, ledger, rt, helper, waiting, http>>

\* the critic answers the rule-extraction prompt with JSON; the embedding
\* of the trade summary is requested
execute_learning_rules_extracted(response) ==
    /\ lr.pc = "rules_json"
    /\ lr' = [lr EXCEPT !.pc = "embed_trade",
                        !.extracted_rules = extracted(response),
                        !.calls = @ \o <<Ev("ret", "rules_json"),
                                         Ev("call", "embed")>>]
    /\ UNCHANGED <<dec, memory, ledger, rt, helper, waiting, http>>

\* the rule-extraction request fails: no rules
execute_learning_rules_failed ==
    /\ lr.pc = "rules_json"
    /\ lr' = [lr EXCEPT !.pc = "embed_trade", !.extracted_rules = <<>>,
                        !.calls = @ \o <<Ev("raise", "rules_json"),
                                         Ev("call", "embed")>>]
    /\ UNCHANGED <<dec, memory, ledger, rt, helper, waiting, http>>

\* the summary is embedded: the trade memory is sent to the store
execute_learning_trade_embedded ==
    /\ lr.pc = "embed_trade"
    /\ lr' = [lr EXCEPT !.pc = "store_trade",
                        !.calls = @ \o <<Ev("ret", "embed"),
                                         Ev("call", "store_trade_memory")>>]
    /\ UNCHANGED <<dec, memory, ledger, rt, helper, waiting, http>>

\* the trade memory is stored; the loop over the rules starts
execute_learning_trade_stored ==
    /\ lr.pc = "store_trade"
    /\ LET trade == Loaded(lr.trade_id)
       IN  trades_memory' =
               store_trade_memory(trades_memory, trade.id, LearningEmbedding,
                                  [symbol |-> trade.symbol,
                                   result |-> Fin(trade.result, 1)])
    /\ lr' = Advance(lr, <<Ev("ret", "store_trade_memory")>>, 1)
    /\ UNCHANGED <<dec, rules_memory, ledger, rt, helper, waiting, http>>

\* a rule's text is embedded: the rule memory is sent to the store
execute_learning_rule_embedded ==
    /\ lr.pc = "embed_rule"
    /\ lr' = [lr EXCEPT !.pc = "store_rule",
                        !.calls = @ \o <<Ev("ret", "embed"),
                                         Ev("call", "store_rule_memory")>>]
    /\ UNCHANGED <<dec, memory, ledger, rt, helper, waiting, http>>

\* the rule memory is stored; the loop goes on
execute_learning_rule_stored ==
    /\ lr.pc = "store_rule"
    /\ LET rule == lr.extracted_rules[lr.i]
       IN  rules_memory' =
               store_rule_memory(rules_memory, Len(rules_memory) + 1,
                                 LearningEmbedding,
                                 [rule_type |->
                                      CtxGet(rule.rule_type, "PATTERN"),
                                  confidence |->
                                      Get(rule.confidence,
                                          Num(DEFAULT_CONFIDENCE)),
                                  is_active |-> TRUE])
    /\ lr' = Advance(lr, <<Ev("ret", "store_rule_memory")>>, lr.i + 1)
    /\ UNCHANGED <<dec, trades_memory, ledger, rt, helper, waiting, http>>

\* the embeddings service fails
execute_learning_embed_failed ==
    /\ lr.pc \in {"embed_trade", "embed_rule"}
    /\ lr' = Fail(lr, <<Ev("raise", "embed")>>, "embed")
    /\ UNCHANGED <<dec, memory, ledger, rt, helper, waiting, http>>

\* the memory store fails
execute_learning_store_failed ==
    /\ lr.pc \in {"store_trade", "store_rule"}
    /\ lr' = Fail(lr, <<Ev("raise", IF lr.pc = "store_trade"
                                    THEN "store_trade_memory"
                                    ELSE "store_rule_memory")>>, "store")
    /\ UNCHANGED <<dec, memory, ledger, rt, helper, waiting, http>>

\* the trade as the session holds it before the commit
Learned(trade, l) ==
    [trade EXCEPT !.critique = Get(l.critique.summary, Str(<<>>)),
                  !.extracted_rules = StoredRules(l.extracted_rules),
                  !.learning_processed_at = "utcnow"]

\* the session committing the trade, the rules and the queue item although
\* the Statistic update is left out
execute_learning_update_uncounted ==
    /\ lr.pc = "update"
    /\ LET trade == Loaded(lr.trade_id)
       IN  /\ trades' = [i \in 1..Len(trades) |->
                            IF trades[i].id = trade.id
                            THEN Learned(trade, lr) ELSE trades[i]]
           /\ rules' = _store_rules(rules, trade, lr.extracted_rules)
           /\ learning_queue' =
                  [i \in 1..Len(learning_queue) |->
                      IF learning_queue[i].trade_id = trade.id
                      THEN [learning_queue[i] EXCEPT
                               !.status = "COMPLETED",
                               !.completed_at = "utcnow"]
                      ELSE learning_queue[i]]
           /\ lr' = LrEnd(lr, <<Ev("ret", "ledger")>>, "returned")
    /\ UNCHANGED <<dec, memory, statistics, rt, helper, waiting, http>>

\* the select of the Statistic row answers: the session holds the row as
\* the ledger has it now, or a new Statistic when there is none; the counts
\* are updated (a new Statistic raises there) and the trades of the symbol
\* are selected for the averages
execute_learning_statistic_selected ==
    /\ lr.pc = "statistic"
    /\ LET trade == Loaded(lr.trade_id)
           at == StatisticAt(statistics, trade.symbol, trade.timeframe)
           r == _update_statistics(<<>>, trade, trades)
       IN  lr' = IF at = {}
                 THEN Fail([lr EXCEPT !.stat = r],
                           <<Ev("ret", "ledger"),
                             Ev("error", "_update_statistics")>>, r.exc)
                 ELSE [lr EXCEPT
                          !.pc = "update",
                          !.row = <<statistics[CHOOSE i \in at : TRUE]>>,
                          !.calls = @ \o <<Ev("ret", "ledger"),
                                           Ev("call", "ledger")>>]
    /\ UNCHANGED <<dec, memory, ledger, rt, helper, waiting, http>>

\* the update applied to the Statistic row as the ledger holds it at the
\* commit, not to the row the session was given
execute_learning_update_in_place ==
    /\ lr.pc = "update"
    /\ LET trade == Loaded(lr.trade_id)
           r == _update_statistics(statistics, trade, trades)
       IN  /\ r.ok
           /\ trades' = [i \in 1..Len(trades) |->
                            IF trades[i].id = trade.id
                            THEN Learned(trade, lr) ELSE trades[i]]
           /\ rules' = _store_rules(rules, trade, lr.extracted_rules)
           /\ statistics' = [i \in 1..Len(statistics) |->
                                IF statistics[i].id = r.row.id
                                THEN r.row ELSE statistics[i]]
           /\ learning_queue' =
                  [i \in 1..Len(learning_queue) |->
                      IF learning_queue[i].trade_id = trade.id
                      THEN [learning_queue[i] EXCEPT
                               !.status = "COMPLETED",
                               !.completed_at = "utcnow"]
                      ELSE learning_queue[i]]
           /\ lr' = LrEnd([lr EXCEPT !.stat = r],
                          <<Ev("ret", "ledger")>>, "returned")
    /\ UNCHANGED <<dec, memory, rt, helper, waiting, http>>

\* the ledger answers through the rest of the session: _update_statistics
\* goes on with the row the session holds; when it returns the trade's
\* queue item, if there is one, is marked COMPLETED and the one commit
\* persists the trade, the rules, the Statistic row and the queue item;
\* when it raises nothing is committed
execute_learning_update ==
    /\ lr.pc = "update"
    /\ LET trade == Loaded(lr.trade_id)
           r == _update_statistics(lr.row, trade, trades)
       IN  IF r.ok
           THEN /\ trades' = [i \in 1..Len(trades) |->
                                 IF trades[i].id = trade.id
                                 THEN Learned(trade, lr) ELSE trades[i]]
                /\ rules' = _store_rules(rules, trade, lr.extracted_rules)
                /\ statistics' = [i \in 1..Len(statistics) |->
                                     IF statistics[i].id = r.row.id
                                     THEN r.row ELSE statistics[i]]
                /\ learning_queue' =
                       [i \in 1..Len(learning_queue) |->
                           IF learning_queue[i].trade_id = trade.id
                           THEN [learning_queue[i] EXCEPT
                                    !.status = "COMPLETED",
                                    !.completed_at = "utcnow"]
                           ELSE learning_queue[i]]
                /\ lr' = LrEnd([lr EXCEPT !.stat = r],
                               <<Ev("ret", "ledger")>>, "returned")
           ELSE /\ lr' = Fail([lr EXCEPT !.stat = r],
                              <<Ev("error", "_update_statistics")>>, r.exc)
                /\ UNCHANGED ledger
    /\ UNCHANGED <<dec, memory, rt, helper, waiting, http>>

\* the ledger fails while the session is open (a select or the commit):
\* nothing of the session is committed
execute_learning_ledger_failed ==
    /\ lr.pc \in {"load", "statistic", "update"}
    /\ lr' = Fail(lr, <<Ev("raise", "ledger")>>, "ledger")
    /\ UNCHANGED <<dec, memory, ledger, rt, helper, waiting, http>>

\* the handler marking the item FAILED without counting the attempt
execute_learning_failure_marked ==
    /\ lr.pc = "handler"
    /\ learning_queue' =
           [i \in 1..Len(learning_queue) |->
               IF learning_queue[i].trade_id = lr.trade_id
               THEN [learning_queue[i] EXCEPT
                        !.status = "FAILED", !.last_error = lr.error]
               ELSE learning_queue[i]]
    /\ lr' = LrEnd(lr, <<Ev("ret", "ledger")>>, "returned")
    /\ UNCHANGED <<dec, memory, trades, rules, statistics, rt, helper,
                   waiting, http>>

\* the handler's session commits: the queue item of the trade id, if there
\* is one, is FAILED with the error text and one more attempt; the run
\* returns
execute_learning_failure_recorded ==
    /\ lr.pc = "handler"
    /\ learning_queue' =
           [i \in 1..Len(learning_queue) |->
               IF learning_queue[i].trade_id = lr.trade_id
               THEN [learning_queue[i] EXCEPT
                        !.status = "FAILED", !.last_error = lr.error,
                        !.attempts = @ + 1]
               ELSE learning_queue[i]]
    /\ lr' = LrEnd(lr, <<Ev("ret", "ledger")>>, "returned")
    /\ UNCHANGED <<dec, memory, trades, rules, statistics, rt, helper,
                   waiting, http>>

\* the handler's own select or commit fails: the exception leaves
\* execute_learning
execute_learning_failure_lost ==
    /\ lr.pc = "handler"
    /\ lr' = LrEnd(lr, <<Ev("raise", "ledger")>>, "raised")
    /\ UNCHANGED <<dec, memory, ledger, rt, helper, waiting, http>>

\* two calls of execute_learning in flight: each action above is the
\* stretch of one call between two awaits, and at an await the event loop
\* goes on with the other call (or lets its caller call execute_learning)
execute_learning_awaits ==
    /\ lr.pc # "idle"
    /\ waiting.pc \notin {"returned", "raised"}
    /\ lr' = waiting
    /\ waiting' = lr
    /\ UNCHANGED <<dec, memory, ledger, rt, helper, http>>

\* a learning run goes on, with every modelled outcome of its calls
LearningSteps ==
    \/ execute_learning_loaded
    \/ \E critique \in CritiqueAnswers : execute_learning_critiqued(critique)
    \/ execute_learning_critique_json_failed
    \/ \E text \in CritiqueTexts : execute_learning_critique_text(text)
    \/ execute_learning_critique_text_failed
    \/ \E response \in RulesAnswers :
           execute_learning_rules_extracted(response)
    \/ execute_learning_rules_failed
    \/ execute_learning_trade_embedded
    \/ execute_learning_trade_stored
    \/ execute_learning_rule_embedded
    \/ execute_learning_rule_stored
    \/ execute_learning_embed_failed
    \/ execute_learning_store_failed
    \/ execute_learning_statistic_selected
    \/ execute_learning_update
    \/ execute_learning_ledger_failed
    \/ execute_learning_failure_recorded
    \/ execute_learning_failure_lost

\* ------------------------------------------- main.py: POST /api/trade/closed

\* no request to the endpoint has been answered
NoAnswer == [status |-> "", trade_id |-> ""]

\* trade_closed: the request is logged and acknowledged; the learning
\* pipeline is not called (main.py:459 leaves it as a TODO)
trade_closed(trade_id) ==
    /\ http' = [status |-> "learning_queued", trade_id |-> trade_id]
    /\ UNCHANGED <<dec, memory, ledger, rt, helper, lr, waiting>>

\* ---------------------------------------------------------- specifications

NoCall == "none"
NotApplied == [done |-> FALSE, value |-> NoCall]
Applied(v) == [done |-> TRUE, value |-> v]

\* a helper is about to be applied to one of its modelled inputs
InitHelper ==
    /\ dec = DecIdle
    /\ trades_memory = <<>>
    /\ rules_memory = <<>>
    /\ trades = <<>>
    /\ learning_queue = <<>>
    /\ rules = <<>>
    /\ statistics = <<>>
    /\ rt = RtIdle
    /\ lr = LrIdle
    /\ waiting = LrIdle
    /\ http = NoAnswer
    /\ fret = NotApplied
    /\ \/ fname = "_normalize_response" /\ farg \in Responses
       \/ fname = "_parse_text_response" /\ farg \in Texts
       \/ fname = "_parse_response" /\ farg \in Texts

apply_normalize_response ==
    /\ fname = "_normalize_response" /\ ~fret.done
    /\ fret' = Applied(_normalize_response(farg))
    /\ UNCHANGED <<dec, memory, ledger, rt, fname, farg, lr, waiting, http>>

apply_parse_text_response ==
    /\ fname = "_parse_text_response" /\ ~fret.done
    /\ fret' = Applied(_parse_text_response(farg))
    /\ UNCHANGED <<dec, memory, ledger, rt, fname, farg, lr, waiting, http>>

apply_parse_response ==
    /\ fname = "_parse_response" /\ ~fret.done
    /\ fret' = Applied(_parse_response(farg))
    /\ UNCHANGED <<dec, memory, ledger, rt, fname, farg, lr, waiting, http>>

NextHelper ==
    \/ apply_normalize_response
    \/ apply_parse_text_response
    \/ apply_parse_response

\* the response helpers of the decision pipelines on every modelled input
SpecHelper == InitHelper /\ [][NextHelper]_vars

Init ==
    /\ dec = DecIdle
    /\ trades_memory = <<>>
    /\ rules_memory = <<>>
    /\ trades = <<>>
    /\ learning_queue = <<>>
    /\ rules = <<>>
    /\ statistics = <<>>
    /\ rt = RtIdle
    /\ lr = LrIdle
    /\ waiting = LrIdle
    /\ http = NoAnswer
    /\ fname = NoCall /\ farg = NoCall /\ fret = NotApplied

\* decision runs of both pipelines, beside writers of the memory store and
\* of the ledger
Next ==
    \/ DecisionRun
    \/ MainDecisionRun
    \/ MemoryWrites
    \/ RecordTradeScenario

Spec == Init /\ [][Next]_vars

\* the ledger alone, with every modelled record_trade input
SpecLedger == Init /\ [][RecordTrade]_vars

\* the ledger when the learning runs start: no Statistic row, or the row of
\* (ES, 1m) as an INSERT with the column defaults leaves it
InitLearning ==
    /\ dec = DecIdle
    /\ trades_memory = <<>>
    /\ rules_memory = <<>>
    /\ trades = <<>>
    /\ learning_queue = <<>>
    /\ rules = <<>>
    /\ statistics \in {<<>>, <<Statistic(1, "ES", "1m")>>}
    /\ rt = RtIdle
    /\ lr = LrIdle
    /\ waiting = LrIdle
    /\ http = NoAnswer
    /\ fname = NoCall /\ farg = NoCall /\ fret = NotApplied

\* the external ids the callers of record_trade use, one per trade
TradeIds == [n \in 1..(MaxTrades + 1) |-> <<"T", n>>]

\* no call of record_trade or execute_learning is in progress
AtRest == /\ rt.pc \in {"idle", "returned", "raised"}
          /\ lr.pc \in {"idle", "returned", "raised"}

\* the exit prices of the trades the learning runs work on, entered at 100:
\* the first closed at a loss, flat or at a gain, the later ones flat
LearningExits(recorded) ==
    IF recorded = 0 THEN {96, 100, 105} ELSE {100}

\* record_trade with the closed (ES, 1m) trades the learning runs work on,
\* called while no learning run is in progress, for as many trades as
\* there are runs
RecordTradeLearning ==
    \/ /\ AtRest
       /\ Len(trades) < MaxLearningRuns
       /\ \E exit \in LearningExits(Len(trades)) :
              record_trade_call(TradeIds[Len(trades) + 1], 100, exit,
                                exit - 100,
                                [symbol |-> "ES", timeframe |-> "1m",
                                 direction |-> "LONG"])
    \/ record_trade_trade_committed
    \/ record_trade_trade_rejected
    \/ record_trade_queued
    \/ record_trade_queue_failed

\* execute_learning, called while no record_trade is in progress with an
\* internal id the ledger may or may not hold
NextLearning ==
    \/ RecordTradeLearning
    \/ /\ AtRest
       /\ lr.runs < MaxLearningRuns
       /\ \E trade_id \in 1..(MaxLearningRuns + 1) :
              execute_learning_call(trade_id)
    \/ LearningSteps

\* trades recorded and learned from, with every modelled outcome of the
\* calls to the critic, the embeddings service, the memory store and the
\* ledger
SpecLearning == InitLearning /\ [][NextLearning]_vars

\* the results of the (ES, 1m) trades of the statistics example, in the
\* order they were closed
StatResults == <<10, 0 - 4, 6, 0 - 2>>

\* the ledger after record_trade has recorded the trades of the example:
\* their rows and their PENDING queue items; no Statistic row, or the row
\* of (ES, 1m) as an INSERT with the column defaults leaves it
InitStats ==
    /\ dec = DecIdle
    /\ trades_memory = <<>>
    /\ rules_memory = <<>>
    /\ trades = [n \in 1..Len(StatResults) |->
                    [Trade(<<"T", n>>, 100, 100 + StatResults[n],
                           StatResults[n],
                           [symbol |-> "ES", timeframe |-> "1m",
                            direction |-> "LONG"])
                        EXCEPT !.id = n]]
    /\ learning_queue = [n \in 1..Len(StatResults) |-> LearningQueue(n, n)]
    /\ rules = <<>>
    /\ statistics \in {<<>>, <<Statistic(1, "ES", "1m")>>}
    /\ rt = RtIdle
    /\ lr = LrIdle
    /\ waiting = LrIdle
    /\ http = NoAnswer
    /\ fname = NoCall /\ farg = NoCall /\ fret = NotApplied

\* the answers of the critic that have the shape asked for
ShapedCritiques == { c \in CritiqueAnswers : c.kind = "dict" }
ShapedRules ==
    { a \in RulesAnswers :
        /\ a.kind = "dict" /\ a.shape = "list"
        /\ \A i \in 1..Len(a.items) : a.items[i].kind = "dict" }

\* the trades are learned from one after another, each once, in the order
\* they were closed; every call is answered, in the shape asked for
NextStats ==
    \/ /\ AtRest
       /\ lr.runs < Len(trades)
       /\ execute_learning_call(trades[lr.runs + 1].id)
    \/ execute_learning_loaded
    \/ \E critique \in ShapedCritiques : execute_learning_critiqued(critique)
    \/ \E response \in ShapedRules : execute_learning_rules_extracted(response)
    \/ execute_learning_trade_embedded
    \/ execute_learning_trade_stored
    \/ execute_learning_rule_embedded
    \/ execute_learning_rule_stored
    \/ execute_learning_statistic_selected
    \/ execute_learning_update
    \/ execute_learning_failure_recorded

SpecStats == InitStats /\ [][NextStats]_vars

\* the results of the (ES, 1m) trades of a journal, in the order they are
\* closed: a scratch trade, a win and a loss
JournalResults == <<0, 10, 0 - 4>>

\* the ledger holds the Statistic row of (ES, 1m) with the column defaults
\* and no trade
InitJournal ==
    /\ dec = DecIdle
    /\ trades_memory = <<>>
    /\ rules_memory = <<>>
    /\ trades = <<>>
    /\ learning_queue = <<>>
    /\ rules = <<>>
    /\ statistics = <<Statistic(1, "ES", "1m")>>
    /\ rt = RtIdle
    /\ lr = LrIdle
    /\ waiting = LrIdle
    /\ http = NoAnswer
    /\ fname = NoCall /\ farg = NoCall /\ fret = NotApplied

\* record_trade with the next trade of the journal, called while no learning
\* run is in progress
RecordTradeJournal ==
    \/ /\ AtRest
       /\ Len(trades) < Len(JournalResults)
       /\ LET result == JournalResults[Len(trades) + 1]
          IN  record_trade_call(TradeIds[Len(trades) + 1], 100, 100 + result,
                                result,
                                [symbol |-> "ES", timeframe |-> "1m",
                                 direction |-> "LONG"])
    \/ record_trade_trade_committed
    \/ record_trade_trade_rejected
    \/ record_trade_queued
    \/ record_trade_queue_failed

\* the critic's answers in a journal: a critique, and no rules
JournalCritique == Critique(Str(<<"late", "entry">>), <<"stop">>,
                            Num(Fin(7, 10)))
JournalRules == RulesResponse("dict", "list", <<>>)

\* the trades of the journal are recorded one after another; between the
\* calls of record_trade execute_learning is called for any recorded trade,
\* again for a trade already learned from too; the critic answers, the
\* embeddings service may fail
NextJournal ==
    \/ RecordTradeJournal
    \/ /\ AtRest
       /\ lr.runs < MaxJournalRuns
       /\ \E i \in 1..Len(trades) : execute_learning_call(trades[i].id)
    \/ execute_learning_loaded
    \/ execute_learning_critiqued(JournalCritique)
    \/ execute_learning_rules_extracted(JournalRules)
    \/ execute_learning_trade_embedded
    \/ execute_learning_embed_failed
    \/ execute_learning_trade_stored
    \/ execute_learning_statistic_selected
    \/ execute_learning_update
    \/ execute_learning_failure_recorded

SpecJournal == InitJournal /\ [][NextJournal]_vars

\* closed trades are posted to the endpoint, beside callers of record_trade
NextClosure ==
    \/ \E trade_id \in {"T1", "T2"} : trade_closed(trade_id)
    \/ RecordTrade

SpecClosure == Init /\ [][NextClosure]_vars

\* the ledger after record_trade has recorded one (ES, 1m) trade of result
\* 0: its row and its PENDING queue item, beside the Statistic row of
\* (ES, 1m) with the column defaults
InitRace ==
    /\ dec = DecIdle
    /\ trades_memory = <<>>
    /\ rules_memory = <<>>
    /\ trades = <<[Trade(TradeIds[1], 100, 100, 0,
                         [symbol |-> "ES", timeframe |-> "1m",
                          direction |-> "LONG"])
                      EXCEPT !.id = 1]>>
    /\ learning_queue = <<LearningQueue(1, 1)>>
    /\ rules = <<>>
    /\ statistics = <<Statistic(1, "ES", "1m")>>
    /\ rt = RtIdle
    /\ lr = LrIdle
    /\ waiting = LrIdle
    /\ http = NoAnswer
    /\ fname = NoCall /\ farg = NoCall /\ fret = NotApplied

\* execute_learning is called twice for the trade, the second call at any
\* await of the first or after it; every call to a service is answered
NextRace ==
    \/ lr.pc = "idle" /\ execute_learning_call(trades[1].id)
    \/ execute_learning_awaits
    \/ execute_learning_loaded
    \/ \E critique \in ShapedCritiques : execute_learning_critiqued(critique)
    \/ execute_learning_rules_extracted(JournalRules)
    \/ execute_learning_trade_embedded
    \/ execute_learning_trade_stored
    \/ execute_learning_statistic_selected
    \/ execute_learning_update

SpecRace == InitRace /\ [][NextRace]_vars

\* ------------------------------------------------------------- properties

\* the run in dec is a run of pipelines/decision.py's DecisionPipeline
CoreRun == dec.variant = "core"

\* the positions of the call log that hold event e
Where(e) == { i \in 1..Len(dec.calls) : dec.calls[i] = e }

\* C1: every successful return of DecisionPipeline.execute, by the JSON path
\* or by the text path, has decision TAKE_TRADE or NO_TRADE, a confidence in
\* [0, 1] and a string as its reason.
C1_ExecuteReturnsContract ==
    (CoreRun /\ dec.pc = "returned") =>
        /\ dec.result.decision \in {TAKE_TRADE, NO_TRADE}
        /\ InUnit(dec.result.confidence)
        /\ dec.result.reason.t = "str"

\* an execute that returned by the text path, its confidence capped at 1
C1_Witness ==
    /\ CoreRun /\ dec.pc = "returned"
    /\ Where(Ev("ret", "get_text_response")) # {}
    /\ dec.result.decision = TAKE_TRADE
    /\ NumEq(dec.result.confidence, ONE)

\* _normalize_response was applied to a JSON object
Normalized == fname = "_normalize_response" /\ fret.done /\ farg.kind = "dict"

\* a confidence string float() does not accept
Unparseable(c) == c.t = "str" /\ ~PyFloat(c.s).ok

\* C2: for every confidence value the LLM output can carry (a string, numeric
\* or not, a number, below 0, above 1, the key missing, JSON null)
\* _normalize_response returns normally with a confidence in [0, 1], which
\* is 0.5 when the value is missing or unparseable.
C2_ConfidenceAlwaysNormalized ==
    ( /\ Normalized
      /\ farg.decision.t \in {"str", "missing"}
      /\ farg.confidence.t \in {"str", "num", "missing", "null"} ) =>
        /\ fret.value.ok
        /\ InUnit(fret.value.confidence)
        /\ (farg.confidence.t = "missing" \/ Unparseable(farg.confidence)) =>
               NumEq(fret.value.confidence, DEFAULT_CONFIDENCE)

\* the decision value upper-cases to TAKE_TRADE
IsTakeTrade(d) == d.t = "str" /\ Upper(d.s) = TAKE_TRADE

\* C3: for every decision value of the LLM output that is not TAKE_TRADE
\* after upper-casing (other strings, numbers, null, the key missing)
\* _normalize_response returns normally with decision NO_TRADE.
C3_DecisionDefaultsToNoTrade ==
    ( /\ Normalized
      /\ farg.decision.t \in {"str", "num", "null", "missing"}
      /\ ~IsTakeTrade(farg.decision)
      /\ farg.confidence.t \in {"num", "missing"} ) =>
        /\ fret.value.ok
        /\ fret.value.decision = NO_TRADE

\* the text holds the words "take" and "trade", in any letter case, with one
\* underscore or one blank between them
HasTakeTrade(t) ==
    \E i \in 1..Len(t) :
        /\ i + 2 <= Len(t)
        /\ LowerWord(t[i]) = "take"
        /\ t[i + 1] \in {"_", " "}
        /\ LowerWord(t[i + 2]) = "trade"

HasNoTrade(t) ==
    \E i \in 1..Len(t) :
        /\ i + 2 <= Len(t)
        /\ LowerWord(t[i]) = "no"
        /\ t[i + 1] \in {"_", " "}
        /\ LowerWord(t[i + 2]) = "trade"

\* words j+1..k of t spell digits, then possibly a point, then possibly
\* more digits
SpellsNumber(t, j, k) ==
    /\ j < k /\ k <= Len(t)
    /\ t[j + 1] \in Digits
    /\ \A p \in (j + 1)..k : t[p] \in Digits \cup {"."}
    /\ Cardinality({ p \in (j + 1)..k : t[p] = "." }) <= 1

\* at word i of t stands "confidence" (any letter case), words i+1..j are
\* colons and blanks (at least one), and words j+1..k are the longest number
\* that starts at j+1
NumberAfterConfidence(t, i, j, k) ==
    /\ LowerWord(t[i]) = "confidence"
    /\ i < j
    /\ \A p \in (i + 1)..j : t[p] \in {":", " "}
    /\ SpellsNumber(t, j, k)
    /\ ~SpellsNumber(t, j, k + 1)

\* the value of the number words j+1..k of t spell
NumberValue(t, j, k) ==
    LET ds == SelectSeq(SubSeq(t, j + 1, k), LAMBDA w : w \in Digits)
        point == { p \in (j + 1)..k : t[p] = "." }
        decimals == IF point = {} THEN 0
                    ELSE k - (CHOOSE p \in point : TRUE)
    IN  Fin(IntOf(ds), Pow10(decimals))

\* C4: _parse_text_response yields TAKE_TRADE exactly when the lower-cased
\* text contains "take_trade" or "take trade" (a no-trade phrase beside it
\* changes nothing) and NO_TRADE for every other text; its confidence is the
\* number after the first "confidence" that has one, capped at 1.0, and 0.5
\* when there is none.
C4_TextParse ==
    (fname = "_parse_text_response" /\ fret.done) =>
        LET out == fret.value
            R == 1..Len(farg)
            at == { i \in R : LowerWord(farg[i]) = "confidence" }
            found == { m \in at \X R \X R :
                         NumberAfterConfidence(farg, m[1], m[2], m[3]) }
        IN  /\ out.decision =
                   Str(IF HasTakeTrade(farg) THEN TAKE_TRADE ELSE NO_TRADE)
            /\ out.confidence.t = "num"
            /\ found = {} => NumEq(out.confidence.n, DEFAULT_CONFIDENCE)
            /\ \A m \in found :
                   (\A o \in found : m[1] <= o[1]) =>
                       NumEq(out.confidence.n,
                             IF Lt(ONE, NumberValue(farg, m[2], m[3]))
                             THEN ONE
                             ELSE NumberValue(farg, m[2], m[3]))

\* a text with both phrases, parsed as TAKE_TRADE
C4_Witness ==
    /\ fname = "_parse_text_response" /\ fret.done
    /\ HasTakeTrade(farg) /\ HasNoTrade(farg)
    /\ fret.value.decision = Str(TAKE_TRADE)

\* C5: in one DecisionPipeline.execute run the text completion is requested
\* at most once and only right after the JSON completion request of the run
\* has failed; when the text completion fails too execute raises and returns
\* no decision.
C5_TextFallbackOnce ==
    CoreRun =>
        /\ Cardinality(Where(Ev("call", "get_text_response"))) <= 1
        /\ \A i \in Where(Ev("call", "get_text_response")) :
               /\ i > 1
               /\ dec.calls[i - 1] = Ev("raise", "get_json_response")
        /\ Where(Ev("raise", "get_text_response")) # {} =>
               /\ dec.pc = "raised"
               /\ ~dec.result.ok
               /\ dec.result.decision \notin {TAKE_TRADE, NO_TRADE}

\* a run in which both completion requests failed
C5_Witness ==
    /\ CoreRun /\ dec.pc = "raised"
    /\ Where(Ev("raise", "get_json_response")) # {}
    /\ Where(Ev("raise", "get_text_response")) # {}

Retrievals == {"embed", "search_similar_trades", "search_relevant_rules"}

\* the positions of the call log at which a retrieval step failed
RetrievalFailures ==
    { i \in 1..Len(dec.calls) :
        dec.calls[i].ev = "raise" /\ dec.calls[i].what \in Retrievals }

\* the failure of a retrieval step is the last thing the run did, and the
\* run raised: nothing was substituted, no completion was requested
FailsTheRun ==
    \A i \in RetrievalFailures :
        /\ i = Len(dec.calls)
        /\ dec.pc = "raised"
        /\ dec.embedding # MOCK_EMBEDDING

\* C6 as stated: a failure of the embedding request or of a memory-store
\* search during a decision run (of either DecisionPipeline) makes the run
\* fail: nothing is substituted and no LLM completion is requested after it.
C6_RetrievalFailureFailsRun == FailsTheRun

\* C6, amended: a failure of the embedding request or of a memory-store
\* search during a run of pipelines/decision.py's DecisionPipeline.execute
\* makes the run fail: nothing is substituted and no LLM completion is
\* requested after it.
C6_CoreRetrievalFailureFailsRun == CoreRun => FailsTheRun

\* a run of the core pipeline that failed in its rules search
C6_Witness ==
    /\ CoreRun /\ dec.pc = "raised"
    /\ Where(Ev("raise", "search_relevant_rules")) # {}
    /\ Where(Ev("ret", "search_similar_trades")) # {}

\* the documented position of a step of execute
Rank(what) ==
    CASE what = "embed" -> 1
      [] what = "search_similar_trades" -> 2
      [] what = "search_relevant_rules" -> 3
      [] what = "build_prompt" -> 4
      [] what = "get_json_response" -> 5
      [] what = "get_text_response" -> 6

\* the step started at position i of the call log has ended before position k
EndedBefore(i, k) ==
    \/ dec.calls[i].ev = "local"
    \/ \E j \in (i + 1)..(k - 1) :
           /\ dec.calls[j].ev \in {"ret", "raise"}
           /\ dec.calls[j].what = dec.calls[i].what

\* C7: within one decision run the steps happen in the documented order:
\* embedding, similar-trades search, rules search, prompt build, completion
\* request; a step starts only when all the steps before it have been
\* started and have ended, and the three retrievals have returned.
C7_FixedCallOrder ==
    CoreRun =>
        LET Starts == { i \in 1..Len(dec.calls) :
                          dec.calls[i].ev \in {"call", "local"} }
        IN  \A k \in Starts :
                /\ \A i \in Starts :
                       i < k => /\ Rank(dec.calls[i].what)
                                       < Rank(dec.calls[k].what)
                                /\ EndedBefore(i, k)
                /\ \A w \in Retrievals \cup {"build_prompt"} :
                       Rank(w) < Rank(dec.calls[k].what) =>
                           \E i \in Starts :
                               i < k /\ dec.calls[i].what = w
                /\ \A w \in Retrievals :
                       Rank(w) < Rank(dec.calls[k].what) =>
                           \E j \in Where(Ev("ret", w)) : j < k

\* a run that found trades and rules and waits for its JSON completion
C7_Witness ==
    /\ CoreRun /\ dec.pc = "json"
    /\ Len(dec.similar_trades) > 0
    /\ Len(dec.relevant_rules) > 0

\* C8: a decision run, successful or failed, leaves the ledger (trades,
\* rules, statistics, learning queue) and the memory store unchanged: no
\* step of a run writes to them.
C8_DecisionRunOnlyReads ==
    [][dec' # dec => (ledger' = ledger /\ memory' = memory)]_vars

\* a run that ended beside a ledger and a memory store that hold entries
C8_Witness ==
    /\ dec.pc \in {"returned", "raised"}
    /\ Len(dec.calls) > 1
    /\ Len(trades) > 0 /\ Len(learning_queue) > 0
    /\ Len(trades_memory) > 0 /\ Len(rules_memory) > 0

\* C9: every rule handed to the decision prompt builder by a decision run is
\* active and has a stored confidence of at least MIN_RULE_CONFIDENCE, and
\* at most MAX_RULES_CONTEXT rules are handed over.
C9_RulesHandedAreConfident ==
    (CoreRun /\ dec.messages.ok) =>
        /\ Len(dec.messages.rules) <= MAX_RULES_CONTEXT
        /\ \A i \in 1..Len(dec.messages.rules) :
               /\ dec.messages.rules[i].is_active
               /\ dec.messages.rules[i].confidence.t = "num"
               /\ ~Lt(dec.messages.rules[i].confidence.n, MIN_RULE_CONFIDENCE)

\* C10: a successful record_trade adds exactly one Trade, whose
\* result_percent is (exit - entry) / entry * 100 to the four decimals of its
\* column when entry is nonzero and 0 when entry is zero (entry 100, exit 105
\* gives 5), adds exactly one learning-queue item for that trade with status
\* PENDING and attempts 0, and returns the trade's internal identifier.
C10_RecordTradeRecords ==
    rt.pc = "returned" =>
        /\ Len(trades) = Len(rt.before.trades) + 1
        /\ SubSeq(trades, 1, Len(rt.before.trades)) = rt.before.trades
        /\ Len(learning_queue) = Len(rt.before.learning_queue) + 1
        /\ SubSeq(learning_queue, 1, Len(rt.before.learning_queue))
               = rt.before.learning_queue
        /\ LET t == trades[Len(trades)]
               q == learning_queue[Len(learning_queue)]
               p == t.result_percent
           IN  /\ t.trade_id = rt.trade.trade_id
               /\ p.k = "fin" /\ p.den = RESULT_PERCENT_SCALE
               /\ t.entry_price = 0 => p.num = 0
               /\ t.entry_price # 0 =>
                      2 * Abs(p.num * t.entry_price
                              - (t.exit_price - t.entry_price) * 100
                                    * RESULT_PERCENT_SCALE)
                          <= Abs(t.entry_price)
               /\ (t.entry_price = 100 /\ t.exit_price = 105) =>
                      NumEq(p, Fin(5, 1))
               /\ q.trade_id = t.id
               /\ q.status = "PENDING" /\ q.attempts = 0
               /\ rt.ret = t.id
               /\ \A i \in 1..Len(rt.before.trades) :
                      rt.before.trades[i].id # t.id

\* record_trade returned for entry 100, exit 105
C10_Witness ==
    /\ rt.pc = "returned"
    /\ trades[Len(trades)].entry_price = 100
    /\ trades[Len(trades)].exit_price = 105
    /\ NumEq(trades[Len(trades)].result_percent, Fin(5, 1))
    /\ Len(trades) = 2

\* ------------------------------------------------ the learning pipeline

\* a run of execute_learning that loaded its trade has ended
LearningEnded ==
    /\ lr.pc \in {"returned", "raised"}
    /\ lr.done # <<>>
    /\ lr.done[Len(lr.done)] = lr.trade_id

\* the rows of a table that carry a trade's internal id in a column
ItemsOf(trade_id) ==
    { i \in 1..Len(learning_queue) : learning_queue[i].trade_id = trade_id }
TradesOf(trade_id) ==
    { i \in 1..Len(trades) : trades[i].id = trade_id }

\* every answer the run used had the shape its prompt asks for
WellAnswered == lr.error \notin {ListHasNoGet, StrHasNoGet}

\* C11: after record_trade for a trade with symbol ES and timeframe 1m, an
\* execute_learning in which every external call succeeds (and answers in
\* the shape asked for) leaves the trade's queue item COMPLETED with a
\* completion timestamp, and exactly one Statistic row exists for (ES, 1m),
\* created if none existed and updated otherwise.
C11_LearningCompletes ==
    (LearningEnded /\ lr.failed = {} /\ WellAnswered) =>
        \A t \in TradesOf(lr.trade_id) :
            (trades[t].symbol = "ES" /\ trades[t].timeframe = "1m") =>
                /\ \A q \in ItemsOf(lr.trade_id) :
                       /\ learning_queue[q].status = "COMPLETED"
                       /\ learning_queue[q].completed_at # ABSENT
                /\ Cardinality(StatisticAt(statistics, "ES", "1m")) = 1

\* the trade select of the run in progress has answered
TradeLoaded == Len(lr.calls) >= 2 /\ lr.calls[2] = Ev("ret", "ledger")

\* what the handler leaves in the ledger when it has recorded a failure:
\* the items of the trade FAILED with the error text and one more attempt,
\* everything else as it was
FailureRecorded ==
    /\ \A q \in 1..Len(learning_queue) :
           learning_queue'[q] =
               IF q \in ItemsOf(lr.trade_id)
               THEN [learning_queue[q] EXCEPT
                        !.status = "FAILED", !.last_error = lr.error,
                        !.attempts = learning_queue[q].attempts + 1]
               ELSE learning_queue[q]
    /\ Len(learning_queue') = Len(learning_queue)
    /\ trades' = trades /\ rules' = rules /\ statistics' = statistics

C13_NeverRaises == lr.pc # "raised"

\* the calls of a log that went to the critic, the embeddings service or
\* the memory store
GatewayCalls(calls) ==
    { i \in 1..Len(calls) : calls[i].what # "ledger" }

\* C14: execute_learning called with an id that is not in the ledger
\* changes nothing in the ledger or in the memory store and calls neither
\* the critic nor the embeddings service nor the memory store; when the
\* trade select answers, it returns at once, without error.
C14_AbsentTradeIsNoOp ==
    [][(lr' # lr /\ TradesOf(lr'.trade_id) = {}) =>
           /\ ledger' = ledger /\ memory' = memory
           /\ GatewayCalls(lr'.calls) = {}
           /\ (lr.pc = "load" /\ Len(lr'.calls) >= 2
                  /\ lr'.calls[2] = Ev("ret", "ledger")) =>
                  /\ lr'.pc = "returned"
                  /\ lr'.calls = <<Ev("call", "ledger"), Ev("ret", "ledger")>>
                  /\ lr'.error = ""
      ]_vars

\* execute_learning has returned for an id the ledger, which holds a trade,
\* does not hold
C14_Witness ==
    /\ lr.pc = "returned" /\ lr.error = ""
    /\ trades # <<>> /\ TradesOf(lr.trade_id) = {}
    /\ lr.calls = <<Ev("call", "ledger"), Ev("ret", "ledger")>>

\* the rules of a list that _store_rules gives a row
Texted(extracted_rules) ==
    { i \in 1..Len(extracted_rules) : HasText(extracted_rules[i]) }

\* the one commit of a learning run, as a step of the ledger: the trade
\* gets its critique, its extracted rules and its processing time, a Rule
\* row is added for each rule with a text, the Statistic row of the trade's
\* key counts one more trade, and the trade's queue item is COMPLETED with
\* a completion time; every other row is as it was
LearningCommit ==
    LET id == lr.trade_id
        t == CHOOSE i \in TradesOf(id) : TRUE
        key == StatisticAt(statistics, trades[t].symbol, trades[t].timeframe)
    IN  /\ lr.pc = "update"
        /\ Len(trades') = Len(trades)
        /\ \A i \in 1..Len(trades) :
               trades'[i] =
                   IF i = t
                   THEN [trades[i] EXCEPT
                            !.critique = Get(lr.critique.summary, Str(<<>>)),
                            !.extracted_rules =
                                StoredRules(lr.extracted_rules),
                            !.learning_processed_at = "utcnow"]
                   ELSE trades[i]
        /\ Len(rules') = Len(rules) + Cardinality(Texted(lr.extracted_rules))
        /\ \A i \in 1..Len(rules) : rules'[i] = rules[i]
        /\ \A i \in (Len(rules) + 1)..Len(rules') :
               rules'[i].source_trade_id = id
        /\ Len(statistics') = Len(statistics)
        /\ key # {}
        /\ \A i \in 1..Len(statistics) :
               IF i \in key
               THEN statistics'[i].total_trades
                        = statistics[i].total_trades + 1
               ELSE statistics'[i] = statistics[i]
        /\ Len(learning_queue') = Len(learning_queue)
        /\ \A q \in 1..Len(learning_queue) :
               learning_queue'[q] =
                   IF q \in ItemsOf(id)
                   THEN [learning_queue[q] EXCEPT
                            !.status = "COMPLETED",
                            !.completed_at = "utcnow"]
                   ELSE learning_queue[q]

\* C15: the ledger effects of one execute_learning invocation are
\* all-or-nothing. A step of a learning run that changes the ledger is
\* either its commit, which persists the trade's critique, extracted_rules
\* and learning_processed_at, the Rule rows of its rules, the Statistic
\* update of its (symbol, timeframe) and the COMPLETED queue item together,
\* or the handler's commit, which changes the queue item only; and a queue
\* item is COMPLETED only where the trade, its rules and its Statistic row
\* show the same commit.
C15_LedgerEffectsAtomic ==
    /\ [][(lr' # lr /\ ledger' # ledger) =>
              \/ LearningCommit
              \/ lr.pc = "handler" /\ FailureRecorded]_vars
    /\ [](\A q \in 1..Len(learning_queue) :
              learning_queue[q].status = "COMPLETED" =>
                  \A t \in TradesOf(learning_queue[q].trade_id) :
                      /\ trades[t].learning_processed_at # ABSENT
                      /\ trades[t].critique # Null
                      /\ trades[t].extracted_rules.set
                      /\ Texted(trades[t].extracted_rules.rules) # {} =>
                             \E r \in 1..Len(rules) :
                                 rules[r].source_trade_id = trades[t].id
                      /\ \E s \in StatisticAt(statistics, trades[t].symbol,
                                              trades[t].timeframe) :
                             statistics[s].total_trades >= 1)

\* a learning run has committed: the queue item is COMPLETED, the trade
\* carries its critique and a rule, the rule has its row and the Statistic
\* row counts the trade
C15_Witness ==
    /\ LearningEnded /\ lr.pc = "returned" /\ lr.error = ""
    /\ \E q \in ItemsOf(lr.trade_id) :
           learning_queue[q].status = "COMPLETED"
    /\ \E t \in TradesOf(lr.trade_id) :
           /\ trades[t].learning_processed_at = "utcnow"
           /\ trades[t].extracted_rules.rules # <<>>
    /\ \E r \in 1..Len(rules) : rules[r].source_trade_id = lr.trade_id
    /\ \E s \in StatisticAt(statistics, "ES", "1m") :
           statistics[s].total_trades = 1

\* the critique of the run in progress came from the text fallback: the
\* JSON request raised and the text request answered
TextFallback(l) ==
    \E i \in 1..Len(l.calls) :
        /\ l.calls[i] = Ev("raise", "critique_json")
        /\ \E j \in (i + 1)..Len(l.calls) :
               l.calls[j] = Ev("ret", "critique_text")

\* C16: when the critique's JSON request fails and its text request
\* succeeds, the critique used is {summary: the raw text, the three lists
\* empty, overall_score 0.5}; rule extraction is requested afterwards with
\* that critique embedded in its prompt; and the critique the commit stores
\* on the trade is the raw text.
C16_TextFallbackCritique ==
    [][/\ TextFallback(lr') =>
              /\ lr'.critique.kind = "dict"
              /\ lr'.critique.summary = Str(lr'.text)
              /\ lr'.critique.what_went_well = <<>>
              /\ lr'.critique.what_went_wrong = <<>>
              /\ lr'.critique.lessons_learned = <<>>
              /\ lr'.critique.overall_score.t = "num"
              /\ NumEq(lr'.critique.overall_score.n, Fin(1, 2))
              /\ lr'.prompt.critique = lr'.critique
              /\ \E i \in 1..Len(lr'.calls) :
                     /\ lr'.calls[i] = Ev("ret", "critique_text")
                     /\ i < Len(lr'.calls)
                     /\ lr'.calls[i + 1] = Ev("call", "rules_json")
       /\ (TextFallback(lr) /\ lr.pc = "update" /\ lr'.pc = "returned") =>
              \A t \in TradesOf(lr.trade_id) :
                  trades'[t].critique = Str(lr.text)
      ]_vars

\* a run whose critique came from the text fallback has committed: the
\* trade's critique is the text
C16_Witness ==
    /\ LearningEnded /\ lr.pc = "returned" /\ lr.error = ""
    /\ \E q \in ItemsOf(lr.trade_id) :
           learning_queue[q].status = "COMPLETED"
    /\ \E t \in TradesOf(lr.trade_id), text \in CritiqueTexts :
           trades[t].critique = Str(text)

\* C17: whatever the outcome of rule extraction (transport error,
\* unparseable answer, JSON of the wrong shape such as a "rules" that is
\* not a list or list items that are not mappings), the rules used are an
\* empty list, never items of the wrong shape, and the run still stores the
\* trade memory, updates the Statistic row and ends with the queue item
\* COMPLETED, provided the other steps succeed.
C17_RuleExtractionNeverFatal ==
    /\ \A i \in 1..Len(lr.extracted_rules) :
           lr.extracted_rules[i].kind = "dict"
    /\ (/\ LearningEnded
        /\ lr.failed \subseteq {"rules_json"}
        /\ lr.error # ListHasNoGet
        /\ lr.stat.exc = "") =>
           /\ lr.pc = "returned" /\ lr.error = ""
           /\ lr.stat.ok
           /\ \E p \in 1..Len(trades_memory) :
                  trades_memory[p].trade_id = lr.trade_id
           /\ \A q \in ItemsOf(lr.trade_id) :
                  learning_queue[q].status = "COMPLETED"

\* the first n trades of the ledger have each been processed once by
\* execute_learning, one after another, and no run is in progress
Processed(n) ==
    /\ lr.pc \in {"returned", "raised"}
    /\ Len(lr.done) = n
    /\ \A k \in 1..n : lr.done[k] = trades[k].id

\* how many of the first n trades of the ledger are wins
Wins(n) == Cardinality({ k \in 1..n : trades[k].result > 0 })

\* C18: after N trades of one (symbol, timeframe) key have each been
\* processed once by execute_learning, one after another, the key's
\* Statistic row has winning_trades + losing_trades = total_trades = N, the
\* winning trades being those with a result above zero.
C18_CountsAddUp ==
    \A n \in 1..Len(trades) :
        Processed(n) =>
            /\ StatisticAt(statistics, "ES", "1m") # {}
            /\ \A s \in StatisticAt(statistics, "ES", "1m") :
                   /\ statistics[s].winning_trades
                          + statistics[s].losing_trades
                              = statistics[s].total_trades
                   /\ statistics[s].total_trades = n
                   /\ statistics[s].winning_trades = Wins(n)

\* C19: starting from no Statistic row (as the runs of the example do),
\* processing the four (ES, 1m) trades with results +10, -4, +6, -2 one
\* after another leaves a row with
\* total_trades 4, winning_trades 2, losing_trades 2, win_rate 1/2,
\* total_pnl 10, avg_win 8, avg_loss -3 and expectancy 5/2.
C19_NumericExample ==
    Processed(Len(StatResults)) =>
        /\ StatisticAt(statistics, "ES", "1m") # {}
        /\ \A s \in StatisticAt(statistics, "ES", "1m") :
               /\ statistics[s].total_trades = 4
               /\ statistics[s].winning_trades = 2
               /\ statistics[s].losing_trades = 2
               /\ NumEq(statistics[s].win_rate, Fin(1, 2))
               /\ NumEq(statistics[s].total_pnl, Fin(10, 1))
               /\ NumEq(statistics[s].avg_win, Fin(8, 1))
               /\ NumEq(statistics[s].avg_loss, Fin(0 - 3, 1))
               /\ NumEq(statistics[s].expectancy, Fin(5, 2))

\* win_rate * avg_win + (1 - win_rate) * avg_loss of a Statistic row
Expectancy(row) ==
    Plus(Times(row.win_rate, row.avg_win),
         Times(Plus(Fin(1, 1), Times(Fin(0 - 1, 1), row.win_rate)),
               row.avg_loss))

\* C20: after every statistics update (of a row the ledger already held)
\* the row satisfies expectancy = win_rate * avg_win + (1 - win_rate) *
\* avg_loss; for a row whose trades are all losses (win_rate 0) this is
\* expectancy = avg_loss.
C20_ExpectancyFormula ==
    lr.stat.existed =>
        /\ lr.stat.ok
        /\ NumEq(lr.stat.row.expectancy, Expectancy(lr.stat.row))
        /\ lr.stat.row.win_rate.num = 0 =>
               NumEq(lr.stat.row.expectancy, lr.stat.row.avg_loss)

\* the trades of a Statistic row's key that a learning run has processed
Counted(row) ==
    { i \in 1..Len(trades) :
        /\ trades[i].symbol = row.symbol
        /\ trades[i].timeframe = row.timeframe
        /\ trades[i].learning_processed_at # ABSENT }

\* the sum of the results, of one sign, of a set of trades
RECURSIVE ResultSum(_, _)
ResultSum(idx, sign) ==
    IF idx = {} THEN 0
    ELSE LET i == CHOOSE k \in idx : TRUE
         IN  (IF trades[i].result * sign > 0 THEN trades[i].result ELSE 0)
                 + ResultSum(idx \ {i}, sign)

\* C21: a Statistic row that counts each processed trade of its key once,
\* and whose counted losing trades have a nonzero total loss, has
\* profit_factor = (sum of the counted winning results) / |sum of the counted
\* losing results|, whatever other trades of the symbol the ledger holds
C21_ProfitFactorOfCountedTrades ==
    \A r \in 1..Len(statistics) :
        LET row == statistics[r]
            gross_wins == ResultSum(Counted(row), 1)
            gross_losses == 0 - ResultSum(Counted(row), 0 - 1)
        IN  (/\ row.total_trades = Cardinality(Counted(row))
             /\ gross_losses > 0) =>
                NumEq(row.profit_factor, Ratio(gross_wins, gross_losses))

\* the trades of a Statistic row's key
TradesAt(row) ==
    { i \in 1..Len(trades) :
        /\ trades[i].symbol = row.symbol
        /\ trades[i].timeframe = row.timeframe }

\* C22: however often execute_learning is called, also for a trade whose
\* queue item is COMPLETED or FAILED, a Statistic row counts no more trades
\* than its key has, and its total_pnl is the sum of the results of the
\* trades of its key that were processed
C22_TradeCountedAtMostOnce ==
    \A r \in 1..Len(statistics) :
        LET row == statistics[r]
        IN  /\ row.total_trades <= Cardinality(TradesAt(row))
            /\ NumEq(row.total_pnl,
                     Fin(ResultSum(Counted(row), 1)
                             + ResultSum(Counted(row), 0 - 1), 1))

\* C23: a queue item that is COMPLETED keeps its status, its last_error and
\* its attempts through every later step of execute_learning
C23_CompletedIsTerminal ==
    [][\A i \in 1..Len(learning_queue) :
           learning_queue[i].status = "COMPLETED" =>
               /\ learning_queue'[i].status = "COMPLETED"
               /\ learning_queue'[i].last_error = learning_queue[i].last_error
               /\ learning_queue'[i].attempts = learning_queue[i].attempts]_vars

\* C24: once the trade-closure endpoint has answered "learning_queued" for a
\* trade_id, the ledger holds a Trade with that trade_id and a queue item
\* for it
C24_ClosedTradeIsRecorded ==
    http.status = "learning_queued" =>
        \E i \in 1..Len(trades) :
            /\ trades[i].trade_id = http.trade_id
            /\ \E q \in 1..Len(learning_queue) :
                   learning_queue[q].trade_id = trades[i].id

\* both calls of execute_learning have returned without an error
BothReturned ==
    /\ lr.pc = "returned" /\ waiting.pc = "returned"
    /\ lr.failed = {} /\ waiting.failed = {}
    /\ lr.error = "" /\ waiting.error = ""
    /\ lr.stat.ok /\ waiting.stat.ok

\* both calls were given the Statistic row before either had committed
Raced ==
    /\ BothReturned
    /\ lr.row = <<Statistic(1, "ES", "1m")>>
    /\ waiting.row = lr.row

\* the Statistic row that one processing of the trade leaves
ProcessedOnce ==
    _update_statistics(<<Statistic(1, "ES", "1m")>>, trades[1], trades).row

\* the row's total_trades or total_pnl is not what one processing leaves
Corrupted ==
    \/ statistics[1].total_trades # ProcessedOnce.total_trades
    \/ ~NumEq(statistics[1].total_pnl, ProcessedOnce.total_pnl)

RuleMemoriesStored(calls) ==
    Cardinality({ i \in 1..Len(calls) :
                    calls[i] = Ev("ret", "store_rule_memory") })

RULE_TYPES == {"ENTRY", "EXIT", "RISK", "PATTERN", "MISTAKE"}

\* C27: every Rule row and every rule memory entry the learning pipeline
\* has created has a rule_type among ENTRY, EXIT, RISK, PATTERN, MISTAKE and
\* a confidence that is a number in [0, 1], whatever the critic returned
C27_RuleTypeAndConfidenceValid ==
    /\ \A i \in 1..Len(rules) :
           /\ rules[i].rule_type \in RULE_TYPES
           /\ rules[i].confidence.t = "num" /\ InUnit(rules[i].confidence.n)
    /\ \A i \in 1..Len(rules_memory) :
           /\ rules_memory[i].rule_type \in RULE_TYPES
           /\ rules_memory[i].confidence.t = "num"
           /\ InUnit(rules_memory[i].confidence.n)


\* C28: between record_trade calls, whichever of their ledger commits
\* failed, every Trade of the ledger has exactly one learning-queue item
C28_OneQueueItemPerTrade ==
    rt.pc \in {"idle", "returned", "raised"} =>
        \A i \in 1..Len(trades) : Cardinality(ItemsOf(trades[i].id)) = 1


\* C29: between execute_learning runs, failed and retried ones included,
\* the memory store holds at most one trade memory entry for a trade id, and
\* holds one only for a trade whose learning_processed_at is set in the
\* ledger
C29_TradeMemoryMatchesLedger ==
    lr.pc \in {"idle", "returned", "raised"} =>
        \A i \in 1..Len(trades_memory) :
            /\ \A j \in 1..Len(trades_memory) :
                   trades_memory[j].trade_id = trades_memory[i].trade_id
                       => j = i
            /\ \E t \in TradesOf(trades_memory[i].trade_id) :
                   trades[t].learning_processed_at # ABSENT


\* C30: POST /api/decision always answers with a decision that is TAKE_TRADE
\* or NO_TRADE and a confidence in [0, 1]; when its pipeline run raised (the
\* LLM call failed) the answer is NO_TRADE with confidence 0.5
C30_DecisionEndpointAnswers ==
    (dec.variant = "main" /\ dec.pc \in {"returned", "raised"}) =>
        /\ dec.answer.ok
        /\ dec.answer.decision \in {TAKE_TRADE, NO_TRADE}
        /\ InUnit(dec.answer.confidence)
        /\ dec.pc = "raised" =>
               /\ dec.answer.decision = NO_TRADE
               /\ NumEq(dec.answer.confidence, DEFAULT_CONFIDENCE)

\* the endpoint's run raised at the LLM call and the endpoint answered
\* NO_TRADE
C30_Witness ==
    /\ dec.variant = "main" /\ dec.pc = "raised"
    /\ ~dec.result.ok
    /\ dec.calls[Len(dec.calls)] = Ev("raise", "get_text_response")
    /\ dec.answer.ok /\ dec.answer.decision = NO_TRADE

====
